---------------------------- MODULE Spec2Model ----------------------------
(***************************************************************************)
(* A model of adstest: the stress engine (src/src/stress.ts, Stress.run)   *)
(* and the performance-counter sampler (src/src/counters.ts, Counters).    *)
(*                                                                         *)
(* Node runs the code on one thread: a step of the model is the code that  *)
(* runs between two suspension points (an await on a promise that is still *)
(* pending, a timer callback).  The continuation of an await is a step of  *)
(* its own, enabled once the awaited promise has settled; timers may fire  *)
(* before it runs, which is at least every order Node can produce.         *)
(*                                                                         *)
(* Spec          one Stress.run() call, from the call to its return/throw  *)
(* CountersSpec  one Counters object: start() and stop() calls made one    *)
(*               after the other, its two timers, its ticks, and the       *)
(*               processes of the machine coming and going                 *)
(* StressifySpec    Counters.CollectPerfCounters around one run            *)
(* TreeSpec         one getChildrenTree call                               *)
(* AveragesSpec     one computeMovingAverages call                         *)
(* ConstructorSpec  one new Stress(...) under an environment               *)
(* MergeSpec        the option merge at the head of one Stress.run() call  *)
(* TwoRunsSpec      Stress.run() calls that overlap on one instance        *)
(* OverlapSpec      start() and stop() calls that overlap on one Counters  *)
(* RemoteSpec       a RemoteCollector, its child process and their channel *)
(***************************************************************************)
EXTENDS Integers, Sequences, FiniteSets, TLC

VARIABLES
    \* ---- Stress.run (src/src/stress.ts) ----
    options,      \* the effective StressOptions of the call and the unit of work under test
    phase,        \* "idle" | "running" | "returned" | "threw": where the run() call is
    pc,           \* pc[t]: "work" (awaiting originalMethod) | "done", per IterativeLoop t
    iter,         \* iter[t]: the loop variable i of IterativeLoop t
    pending,      \* pending[t]: how the in-flight invocation of loop t will settle
    numPasses,    \* let numPasses
    fails,        \* let fails = []
    errors,       \* let errors = []
    timedOut,     \* let timedOut
    timer,        \* the deadline timer: "unset" | "armed" | "fired"
    result,       \* the value run() resolved with, NoResult before
    invocations,  \* number of originalMethod.apply calls made so far (the tests' this.t)
    outcomes,     \* how the invocations that settled so far ended, by kind
    cutShort,     \* some loop left through the timedOut break before its last iteration
    \* ---- Counters (src/src/counters.ts) ----
    includeParent,                     \* this.includeParent
    alive,                             \* the pids the operating system lists
    processesToTrack,                  \* this.processesToTrack, as the list of its pids
    processesToTrackTimer,             \* "null" | "armed"
    countersTimer,                     \* "null" | "armed"
    processesToTrackUpdatePromise,     \* the promise the field holds
    countersCollectionPromise,         \* the promise the field holds
    processesToTrackUpdateInProgress,  \* the guard flag of the refresh loop
    countersCollectionInProgress,      \* the guard flag of the sampling loop
    refreshTicks,                      \* the getProcessInfos calls awaiting the process list
    sampleTicks,                       \* the collectCounters calls awaiting pidusage
    clock,                             \* Date.now(), counted in sampling ticks started
    collection,                        \* this.collection: pid -> field -> the array it refers to
    arrays,                            \* the contents of the arrays collection refers to
    computedStatistics,                \* this.computedStatistics
    call,                              \* the start() or stop() call under way, and where it is
    status,                            \* how the last start() or stop() call ended
    skipped,                           \* a timer fired while its loop's flag was set
    lastFold,                          \* the pids of the samples the last tick folded, and how many ticks folded
    smaOver4Collection,                \* this.smaOver4Collection: pid -> field -> values
    emaOver4Collection,                \* this.emaOver4Collection: pid -> field -> values
    \* ---- getChildrenTree (src/src/utils.ts) ----
    treeInput,                         \* the arguments of a getChildrenTree call
    treeResult,                        \* what the call returned or threw
    \* ---- new Stress(...) (src/src/stress.ts) ----
    environment,                       \* process.env: the four Stress* variables
    parameters,                        \* the StressOptions given to the constructor
    constructed,                       \* the instance made, or the value thrown
    effective,                         \* the options run() resolved for a call
    \* ---- overlapping calls ----
    runs,                              \* the locals of each Stress.run() call under way
    overlap,                           \* a Counters object under overlapping start()/stop() calls
    remote                             \* a RemoteCollector, its child process and their channel

stressVars == <<options, phase, pc, iter, pending, numPasses, fails, errors,
                timedOut, timer, result, invocations, outcomes, cutShort>>

countersVars == <<includeParent, alive, processesToTrack, processesToTrackTimer,
                  countersTimer, processesToTrackUpdatePromise,
                  countersCollectionPromise, processesToTrackUpdateInProgress,
                  countersCollectionInProgress, refreshTicks, sampleTicks, clock,
                  collection, arrays, computedStatistics, call, status, skipped,
                  lastFold>>

averagesVars == <<smaOver4Collection, emaOver4Collection>>

treeVars == <<treeInput, treeResult>>

constructorVars == <<environment, parameters, constructed>>

overlapVars == <<effective, runs, overlap, remote>>

otherVars == <<averagesVars, treeVars, constructorVars, overlapVars>>

vars == <<stressVars, countersVars, otherVars>>

-----------------------------------------------------------------------------
(* Bounds of the model *)

MaxDop == 2
MaxIterations == 2
\* sampling ticks started over the life of the Counters object
MaxTicks == 3
\* the load levels a tick can observe
MaxLoad == 1
\* ticks of one loop that can be in flight together (the code keeps it at 1)
MaxOverlap == 2
\* the largest pid of the process lists given to getChildrenTree
MaxPid == 3
\* the longest raw series given to computeMovingAverages
MaxSamples == 6

(* Program constants *)

FailEvery == 7
ErrorEvery == 11
TotalsPid == -1
WholeComputerPid == 0

\* passThreshold is a fraction; the model keeps it in hundredths.
ThresholdScale == 100

\* The window of the moving averages, and the entries slice(3) drops.
MovingAverageSize == 4
DroppedHead == 3

-----------------------------------------------------------------------------
(* The unit of work and the options of a call *)

NoResult == [numPasses |-> -1, fails |-> <<>>, errors |-> <<>>]

\* The passThreshold values the tests use (1, 0, 0.88, 0.5), in hundredths.
PassThresholds == {0, 50, 88, 100}

\* The units of work: "succeeds" (basicTest), "failedErroredExecutions"
\* (fails every 7th and errors every 11th invocation of a shared counter),
\* "any" (an arbitrary async method: each invocation may pass, fail or error).
WorkKinds == {"succeeds", "failedErroredExecutions", "any"}

\* How the k-th invocation of the unit of work settles; "open" when the
\* method itself decides only while it runs.
UnitOfWork(kind, k) ==
    CASE kind = "succeeds" -> "pass"
      [] kind = "failedErroredExecutions" ->
            IF k % FailEvery = 0 THEN "fail"
            ELSE IF k % ErrorEvery = 0 THEN "error"
            ELSE "pass"
      [] OTHER -> "open"

\* dop = 5, iterations = 6, passThreshold = 1, a unit of work that always succeeds.
BasicScenario ==
    [dop |-> 5, iterations |-> 6, passThreshold |-> 100, work |-> "succeeds"]

\* testStressStats / passThresholdFailed / passThresholdMet, scaled to
\* 2 x 6 = 12 invocations so that the 7th and the 11th both happen.
StatsScenarios ==
    {[dop |-> 2, iterations |-> 6, passThreshold |-> p,
      work |-> "failedErroredExecutions"] : p \in {0, 50, 88}}

StressConfigs ==
    [dop : 1..MaxDop, iterations : 0..MaxIterations,
     passThreshold : PassThresholds, work : WorkKinds]
    \cup StatsScenarios \cup {BasicScenario}

Loops == 1..options.dop

-----------------------------------------------------------------------------
(* Stress.run *)

StressInit ==
    /\ options \in StressConfigs
    /\ phase = "idle"
    /\ pc = <<>>
    /\ iter = <<>>
    /\ pending = <<>>
    /\ numPasses = 0
    /\ fails = <<>>
    /\ errors = <<>>
    /\ timedOut = FALSE
    /\ timer = "unset"
    /\ result = NoResult
    /\ invocations = 0
    /\ outcomes = [pass |-> 0, fail |-> 0, error |-> 0]
    /\ cutShort = FALSE

\* Mutant of Run: a loop that tests i < iterations only after its body (a
\* do-while), so that every loop makes one invocation whatever iterations is.
RunTestsAfterBody ==
    /\ phase = "idle"
    /\ phase' = "running"
    /\ timer' = "armed"
    /\ pc' = [t \in Loops |-> "work"]
    /\ iter' = [t \in Loops |-> 0]
    /\ pending' = [t \in Loops |-> UnitOfWork(options.work, t)]
    /\ invocations' = options.dop
    /\ UNCHANGED <<options, numPasses, fails, errors, timedOut, result,
                   outcomes, cutShort>>
    /\ UNCHANGED <<countersVars, otherVars>>

\* run() up to its first suspension: resolve the options, arm the deadline
\* timer, call IterativeLoop(t) for t = 0..dop-1.  Each call runs synchronously
\* into its first `await originalMethod.apply(...)`, so every loop has made
\* its first invocation (when iterations > 0) before anything else can run.
Run ==
    /\ phase = "idle"
    /\ phase' = "running"
    /\ timer' = "armed"
    /\ pc' = [t \in Loops |-> IF options.iterations > 0 THEN "work" ELSE "done"]
    /\ iter' = [t \in Loops |-> 0]
    /\ pending' = [t \in Loops |->
                     IF options.iterations > 0
                     THEN UnitOfWork(options.work, t) ELSE "none"]
    /\ invocations' = IF options.iterations > 0 THEN options.dop ELSE 0
    /\ UNCHANGED <<options, numPasses, fails, errors, timedOut, result,
                   outcomes, cutShort>>
    /\ UNCHANGED <<countersVars, otherVars>>

\* Mutant of NextIteration: i <= iterations for i < iterations.
NextIterationOffByOne(t) ==
    IF iter[t] + 1 <= options.iterations
    THEN /\ iter' = [iter EXCEPT ![t] = @ + 1]
         /\ invocations' = invocations + 1
         /\ pending' = [pending EXCEPT ![t] =
                           UnitOfWork(options.work, invocations + 1)]
         /\ pc' = pc
    ELSE /\ iter' = [iter EXCEPT ![t] = 0]
         /\ invocations' = invocations
         /\ pending' = [pending EXCEPT ![t] = "none"]
         /\ pc' = [pc EXCEPT ![t] = "done"]

\* The for statement's i++ and i < iterations test of loop t, and the
\* invocation that starts the next iteration.
NextIteration(t) ==
    IF iter[t] + 1 < options.iterations
    THEN /\ iter' = [iter EXCEPT ![t] = @ + 1]
         /\ invocations' = invocations + 1
         /\ pending' = [pending EXCEPT ![t] =
                           UnitOfWork(options.work, invocations + 1)]
         /\ pc' = pc
    ELSE /\ iter' = [iter EXCEPT ![t] = 0]
         /\ invocations' = invocations
         /\ pending' = [pending EXCEPT ![t] = "none"]
         /\ pc' = [pc EXCEPT ![t] = "done"]

\* The loop leaves through `break`.
BreakLoop(t) ==
    /\ iter' = [iter EXCEPT ![t] = 0]
    /\ invocations' = invocations
    /\ pending' = [pending EXCEPT ![t] = "none"]
    /\ pc' = [pc EXCEPT ![t] = "done"]

Settles(t, o) ==
    /\ phase = "running"
    /\ pc[t] = "work"
    /\ pending[t] \in {o, "open"}
    /\ outcomes' = [outcomes EXCEPT ![o] = @ + 1]

\* The awaited invocation of loop t resolved: numPasses++, bear() (called,
\* not awaited), the timedOut test, then the next iteration.
IterationPasses(t) ==
    /\ Settles(t, "pass")
    /\ numPasses' = numPasses + 1
    /\ IF timedOut
       THEN /\ BreakLoop(t)
            /\ cutShort' = (cutShort \/ iter[t] + 1 < options.iterations)
       ELSE /\ NextIteration(t)
            /\ cutShort' = cutShort
    /\ UNCHANGED <<options, phase, fails, errors, timedOut, timer, result>>
    /\ UNCHANGED <<countersVars, otherVars>>

\* Mutant of Classify: the instanceof AssertionError test is lost and every
\* thrown value is wrapped as a StressError.
ClassifyAllAsErrors(o) ==
    /\ errors' = Append(errors, "ERR_STRESS")
    /\ fails' = fails

\* The catch block's classification of a thrown value.
Classify(o) ==
    IF o = "fail"
    THEN /\ fails' = Append(fails, "AssertionError")
         /\ errors' = errors
    ELSE /\ errors' = Append(errors, "ERR_STRESS")
         /\ fails' = fails

\* Mutant of IterationThrows: a thrown value that is no AssertionError is
\* swallowed instead of being pushed to errors.
IterationThrowsDropsError(t) ==
    /\ \E o \in {"fail", "error"} :
          /\ Settles(t, o)
          /\ IF o = "fail" THEN Classify(o) ELSE UNCHANGED <<fails, errors>>
    /\ NextIteration(t)
    /\ UNCHANGED <<options, phase, numPasses, timedOut, timer, result, cutShort>>
    /\ UNCHANGED <<countersVars, otherVars>>

\* The awaited invocation of loop t threw: the catch block records it and
\* the for loop goes on (the catch block does not look at timedOut).
IterationThrows(t) ==
    /\ \E o \in {"fail", "error"} :
          /\ Settles(t, o)
          /\ Classify(o)
    /\ NextIteration(t)
    /\ UNCHANGED <<options, phase, numPasses, timedOut, timer, result, cutShort>>
    /\ UNCHANGED <<countersVars, otherVars>>

\* Mutant of TimerFires: the callback also abandons the invocations in flight.
TimerFiresCancelsWork ==
    /\ timer = "armed"
    /\ timedOut' = TRUE
    /\ timer' = "fired"
    /\ pc' = [t \in DOMAIN pc |-> "done"]
    /\ pending' = [t \in DOMAIN pending |-> "none"]
    /\ UNCHANGED <<options, phase, iter, numPasses, fails, errors,
                   result, invocations, outcomes, cutShort>>
    /\ UNCHANGED <<countersVars, otherVars>>

\* The setTimeout callback.  It stays scheduled when the loops finish first
\* and then fires after run() has ended.
TimerFires ==
    /\ timer = "armed"
    /\ timedOut' = TRUE
    /\ timer' = "fired"
    /\ UNCHANGED <<options, phase, pc, iter, pending, numPasses, fails, errors,
                   result, invocations, outcomes, cutShort>>
    /\ UNCHANGED <<countersVars, otherVars>>

\* Mutant of ThresholdMet: > for >=.
ThresholdMetStrict(passes, total) ==
    passes * ThresholdScale > options.passThreshold * total

\* passThreshold * total <= numPasses, in hundredths.
ThresholdMet(passes, total) ==
    passes * ThresholdScale >= options.passThreshold * total

\* Mutant of Join: the threshold assert does not wait for the loops.
JoinWithoutWaiting ==
    /\ phase = "running"
    /\ LET total == numPasses + Len(errors) + Len(fails)
       IN  IF ThresholdMet(numPasses, total)
           THEN /\ phase' = "returned"
                /\ result' = [numPasses |-> numPasses, fails |-> fails,
                              errors |-> errors]
           ELSE /\ phase' = "threw"
                /\ result' = result
    /\ UNCHANGED <<options, pc, iter, pending, numPasses, fails, errors,
                   timedOut, timer, invocations, outcomes, cutShort>>
    /\ UNCHANGED <<countersVars, otherVars>>

\* Promise.all of the dop loops resolved: the threshold assert and the return.
Join ==
    /\ phase = "running"
    /\ \A t \in Loops : pc[t] = "done"
    /\ LET total == numPasses + Len(errors) + Len(fails)
       IN  IF ThresholdMet(numPasses, total)
           THEN /\ phase' = "returned"
                /\ result' = [numPasses |-> numPasses, fails |-> fails,
                              errors |-> errors]
           ELSE /\ phase' = "threw"
                /\ result' = result
    /\ UNCHANGED <<options, pc, iter, pending, numPasses, fails, errors,
                   timedOut, timer, invocations, outcomes, cutShort>>
    /\ UNCHANGED <<countersVars, otherVars>>

StressNext ==
    \/ Run
    \/ \E t \in Loops : IterationPasses(t)
    \/ \E t \in Loops : IterationThrows(t)
    \/ TimerFires
    \/ Join

-----------------------------------------------------------------------------
(* The machine: its processes and the counters it reports *)

\* The processes that can exist: the parent (1) of the tracked process, the
\* tracked process this.pid (2) and a child (3) of it.
ProcessTable ==
    <<[pid |-> 1, ppid |-> 0], [pid |-> 2, ppid |-> 1], [pid |-> 3, ppid |-> 2]>>

ThisPid == ProcessTable[2].pid

ChildPid == ProcessTable[3].pid

\* getProcessList(): the processes alive when the list is taken.
getProcessList == SelectSeq(ProcessTable, LAMBDA p : p.pid \in alive)

\* getParent(pid, processesList): the one entry with that pid, or an error.
getParent(pid, processesList) ==
    LET processes == SelectSeq(processesList, LAMBDA ps : ps.pid = pid)
    IN  IF Len(processes) # 1
        THEN [ok |-> FALSE, info |-> [pid |-> pid, ppid |-> 0]]
        ELSE [ok |-> TRUE, info |-> processes[1]]

\* The while (p = toProcess.pop()) loop of getChildrenTree; steps bounds the
\* number of pops the model follows.
RECURSIVE Traverse(_, _, _, _)
Traverse(toProcess, childrenList, processesList, steps) ==
    IF toProcess = <<>> THEN [kind |-> "ok", list |-> childrenList]
    ELSE IF steps = 0 THEN [kind |-> "diverges", list |-> childrenList]
    ELSE LET p == toProcess[Len(toProcess)]
             rest == SubSeq(toProcess, 1, Len(toProcess) - 1)
             childrenOfP == SelectSeq(processesList, LAMBDA c : c.ppid = p.pid)
         IN  Traverse(rest \o childrenOfP, Append(childrenList, p),
                      processesList, steps - 1)

\* The values of inputPid that are no number: null, undefined and NaN.
NullPid == 0 - 2
UndefinedPid == 0 - 3
NaNPid == 0 - 4

\* process.pid, the default of inputPid (and of the pid of a Counters object).
ProcessPid == ThisPid

NoTree(error) == [kind |-> error, list |-> <<>>]

\* getChildrenTree(inputPid, getTreeForParent, processesList): the default of
\* inputPid, the pid check, the retargeting to the parent, the lookup of the
\* target and the traversal.  kind is "ok", or names the error thrown.
getChildrenTree(inputPid, getTreeForParent, processesList) ==
    LET pid == IF inputPid = UndefinedPid THEN ProcessPid ELSE inputPid
        parent == getParent(pid, processesList)
        target == IF getTreeForParent /\ parent.ok /\ parent.info.ppid # 0
                  THEN parent.info.ppid ELSE pid
        found == SelectSeq(processesList, LAMBDA q : q.pid = target)
    IN  IF pid \in {NullPid, NaNPid} THEN NoTree("invalid pid")
        ELSE IF getTreeForParent /\ ~parent.ok
             THEN NoTree("unexpected number of processes")
        ELSE IF found = <<>> THEN NoTree("no process found")
        ELSE Traverse(<<found[Len(found)]>>, <<>>, processesList,
                      Len(processesList) + 1)

PidsOf(list) == [i \in DOMAIN list |-> list[i].pid]

Range(f) == {f[i] : i \in DOMAIN f}

\* The synthetic WholeComputer sample cs of a tick: it has no ctime.
WholeComputerSample(tick) ==
    [pid |-> WholeComputerPid,
     values |-> [cpu |-> tick.load, memory |-> 100 + tick.load,
                 elapsed |-> tick.stamp, timestamp |-> tick.stamp]]

\* What pidusage reports for process p in a tick.
ProcessSample(p, tick) ==
    [pid |-> p,
     values |-> [cpu |-> tick.load, memory |-> 10 * p + tick.load,
                 ctime |-> tick.stamp,
                 elapsed |-> tick.stamp, timestamp |-> tick.stamp]]

-----------------------------------------------------------------------------
(* Counters: promises, arrays, the fold of a tick, computeTotals *)

NullPromise == [st |-> "null", of |-> "none", tick |-> 0]
ResolvedPromise == [st |-> "resolved", of |-> "none", tick |-> 0]
PendingPromise(loop, id) == [st |-> "pending", of |-> loop, tick |-> id]

\* Every reference to the promise of tick id of a loop sees it settle.
Settle(p, loop, id, outcome) ==
    IF p = PendingPromise(loop, id) THEN [p EXCEPT !.st = outcome] ELSE p

\* Mutant of Settled: the caller does not wait for the promise.
NotAwaited(p) == TRUE

\* `await p` can continue: p is no promise, or it has settled.
Settled(p) == p.st # "pending"

Idle ==
    [op |-> "none", pc |-> "idle", awaiting |-> NullPromise, waited |-> FALSE]

NoStatistics == [elapsedTime |-> 0, iterations |-> <<>>]

NoFold == [n |-> 0, pids |-> {}]

\* undefined + number, and anything + NaN, is NaN.
NaN == 0 - 1

JsAdd(a, b) == IF a = NaN \/ b = NaN THEN NaN ELSE a + b

\* array[i] as an operand of +=: undefined (past the end) makes the sum NaN.
\* Indices are 1-based in the model.
ElementAt(array, i) == IF i \in DOMAIN array THEN array[i] ELSE NaN

\* The array that field f of the series of pid p refers to.
Field(p, f) == arrays[collection[p][f]]

\* The series objects after a tick's samples are folded in: the series of a
\* sample's pid is created on its first appearance, and so is each field's
\* array (named here by the pid and field it was created for).
FoldCollection(samples) ==
    [p \in DOMAIN collection \cup {s.pid : s \in samples} |->
        IF \E s \in samples : s.pid = p
        THEN LET s == CHOOSE x \in samples : x.pid = p
                 old == IF p \in DOMAIN collection THEN collection[p] ELSE <<>>
             IN  [f \in DOMAIN old \cup DOMAIN s.values |->
                    IF f \in DOMAIN old THEN old[f] ELSE <<p, f>>]
        ELSE collection[p]]

\* The arrays after the fold: one push per sample and field, onto the array
\* the series refers to.
FoldArrays(samples) ==
    LET next == FoldCollection(samples)
        pushes == UNION {{<<next[s.pid][f], s.values[f]>> : f \in DOMAIN s.values} :
                            s \in samples}
        targets == {x[1] : x \in pushes}
    IN  [r \in DOMAIN arrays \cup targets |->
            IF r \in targets
            THEN Append(IF r \in DOMAIN arrays THEN arrays[r] ELSE <<>>,
                        (CHOOSE x \in pushes : x[1] = r)[2])
            ELSE arrays[r]]

\* The forEach over processesToTrack of computeTotals for field f at index i,
\* starting from acc: a process with a series adds series[f][i].
RECURSIVE SumTracked(_, _, _, _)
SumTracked(acc, procs, f, i) ==
    IF procs = <<>> THEN acc
    ELSE LET p == Head(procs)
             added == IF p \in DOMAIN collection
                      THEN JsAdd(acc, ElementAt(Field(p, f), i))
                      ELSE acc
         IN  SumTracked(added, Tail(procs), f, i)

\* computeTotals throws a TypeError when this.pid has no series
\* (this.collection[this.pid].elapsed).  Every tracked pid is a real process,
\* whose samples carry cpu, memory and ctime, so the reads in the loop succeed.
ComputeTotalsThrows == ThisPid \notin DOMAIN collection

\* this.collection after computeTotals: the Totals series has fresh cpu,
\* memory and ctime arrays; its elapsed and timestamp refer to the arrays
\* of the series of this.pid.
TotalsCollection ==
    [p \in DOMAIN collection \cup {TotalsPid} |->
        IF p = TotalsPid
        THEN [cpu |-> <<TotalsPid, "cpu">>, memory |-> <<TotalsPid, "memory">>,
              ctime |-> <<TotalsPid, "ctime">>,
              elapsed |-> collection[ThisPid]["elapsed"],
              timestamp |-> collection[ThisPid]["timestamp"]]
        ELSE collection[p]]

\* The arrays after computeTotals: one total per index of the timestamp array.
TotalsArrays ==
    LET n == Len(Field(ThisPid, "timestamp"))
    IN  [r \in DOMAIN arrays \cup ({TotalsPid} \X {"cpu", "memory", "ctime"}) |->
            IF r[1] = TotalsPid
            THEN [i \in 1..n |-> SumTracked(0, processesToTrack, r[2], i)]
            ELSE arrays[r]]

\* computeAndWriteStatistics: elapsedTime and iterations of the statistics
\* (the percentiles and the mean of the memory totals are not modelled).
ComputeStatistics ==
    LET elapsed == Field(ThisPid, "elapsed")
        datapoints == Len(Field(ThisPid, "timestamp"))
    IN  [elapsedTime |-> IF datapoints = 0 THEN NaN
                         ELSE elapsed[datapoints] - elapsed[1],
         iterations |-> TotalsArrays[<<TotalsPid, "memory">>]]

\* getProcessInfos() up to its await: the flag, the calls in flight and the
\* promise the call returns.
getProcessInfos ==
    IF ~processesToTrackUpdateInProgress
    THEN LET slot == CHOOSE s \in 1..MaxOverlap : s \notin refreshTicks
         IN  [inProgress |-> TRUE, ticks |-> refreshTicks \cup {slot},
              promise |-> PendingPromise("refresh", slot)]
    ELSE [inProgress |-> TRUE, ticks |-> refreshTicks,
          promise |-> ResolvedPromise]

\* getProcessInfos can be followed by the model: a slot is free for the call.
CanRefresh ==
    processesToTrackUpdateInProgress \/ refreshTicks # 1..MaxOverlap

\* Mutant of collectCounters: the in-progress flag is never set.
collectCountersFlagNotSet(load) ==
    IF ~countersCollectionInProgress
    THEN [inProgress |-> FALSE,
          ticks |-> sampleTicks \cup
                      {[stamp |-> clock + 1, load |-> load,
                        pids |-> Range(processesToTrack)]},
          promise |-> PendingPromise("sample", clock + 1), clock |-> clock + 1]
    ELSE [inProgress |-> TRUE, ticks |-> sampleTicks,
          promise |-> ResolvedPromise, clock |-> clock]

\* collectCounters() up to its await: the flag, cs and the pidusage call for
\* the pids tracked now, and the promise the call returns.
collectCounters(load) ==
    IF ~countersCollectionInProgress
    THEN [inProgress |-> TRUE,
          ticks |-> sampleTicks \cup
                      {[stamp |-> clock + 1, load |-> load,
                        pids |-> Range(processesToTrack)]},
          promise |-> PendingPromise("sample", clock + 1), clock |-> clock + 1]
    ELSE [inProgress |-> TRUE, ticks |-> sampleTicks,
          promise |-> ResolvedPromise, clock |-> clock]

\* collectCounters can be followed by the model: the tick bound is not used up.
CanSample == countersCollectionInProgress \/ clock < MaxTicks

-----------------------------------------------------------------------------
(* Counters: start(), stop() and the two timers *)

refreshVars ==
    <<processesToTrackUpdatePromise, processesToTrackUpdateInProgress,
      refreshTicks>>

sampleVars ==
    <<countersCollectionPromise, countersCollectionInProgress, sampleTicks,
      clock>>

dataVars == <<collection, arrays, computedStatistics, lastFold>>

envVars == <<includeParent, alive>>

\* A rejected await, or a failed assert, rejects the call being made.
Throws ==
    /\ call' = Idle
    /\ status' = CASE call.op = "start" -> "start threw"
                    [] call.op = "reset" -> "reset threw"
                    [] OTHER -> "stop threw"

\* stopPopulatingProcessInfos() up to its await, entered by stop().
StopPopulatingProcessInfos(op) ==
    /\ processesToTrackTimer' = "null"
    /\ call' = [op |-> op, pc |-> "stop_awaitRefresh",
                awaiting |-> processesToTrackUpdatePromise,
                waited |-> ~Settled(processesToTrackUpdatePromise)]
    /\ UNCHANGED <<status, refreshVars>>

\* startPopulatingProcessInfos() up to its await.
StartPopulatingProcessInfos ==
    IF processesToTrackTimer # "null"
    THEN Throws /\ UNCHANGED refreshVars
    ELSE /\ CanRefresh
         /\ processesToTrackUpdateInProgress' = getProcessInfos.inProgress
         /\ refreshTicks' = getProcessInfos.ticks
         /\ processesToTrackUpdatePromise' = getProcessInfos.promise
         /\ call' = [op |-> "start", pc |-> "start_awaitRefresh",
                     awaiting |-> getProcessInfos.promise, waited |-> FALSE]
         /\ UNCHANGED status

\* Mutant of StartCall: start() does not stop a collection in progress.
StartCallWithoutStop ==
    /\ call.op = "none"
    /\ clock < MaxTicks
    /\ StartPopulatingProcessInfos
    /\ UNCHANGED processesToTrackTimer
    /\ UNCHANGED <<envVars, processesToTrack, countersTimer, sampleVars,
                   dataVars, skipped, stressVars, otherVars>>

\* start() is called: with a timer armed it runs stop() first.
StartCall ==
    /\ call.op = "none"
    /\ clock < MaxTicks
    /\ IF countersTimer # "null" \/ processesToTrackTimer # "null"
       THEN StopPopulatingProcessInfos("start")
       ELSE StartPopulatingProcessInfos /\ UNCHANGED processesToTrackTimer
    /\ UNCHANGED <<envVars, processesToTrack, countersTimer, sampleVars,
                   dataVars, skipped, stressVars, otherVars>>

\* Mutant of StartAfterRefresh: startCollecting() arms the sampling timer
\* without kicking off a first tick.
StartAfterRefreshTimerOnly ==
    /\ call.pc = "start_awaitRefresh"
    /\ Settled(call.awaiting)
    /\ IF call.awaiting.st = "rejected"
       THEN /\ Throws
            /\ UNCHANGED <<processesToTrackTimer, countersTimer>>
       ELSE /\ processesToTrackTimer' = "armed"
            /\ IF countersTimer # "null"
               THEN Throws /\ UNCHANGED countersTimer
               ELSE /\ countersTimer' = "armed"
                    /\ call' = Idle
                    /\ status' = "started"
    /\ UNCHANGED <<envVars, processesToTrack, refreshVars, sampleVars,
                   dataVars, skipped, stressVars, otherVars>>

\* start() continues after the first refresh: the refresh timer is armed, then
\* startCollecting() kicks off the first tick without awaiting it and arms the
\* sampling timer.
StartAfterRefresh ==
    /\ call.pc = "start_awaitRefresh"
    /\ Settled(call.awaiting)
    /\ IF call.awaiting.st = "rejected"
       THEN /\ Throws
            /\ UNCHANGED <<processesToTrackTimer, countersTimer, sampleVars>>
       ELSE /\ processesToTrackTimer' = "armed"
            /\ IF countersTimer # "null"
               THEN Throws /\ UNCHANGED <<countersTimer, sampleVars>>
               ELSE /\ CanSample
                    /\ \E load \in 1..MaxLoad :
                         /\ countersCollectionInProgress' =
                                collectCounters(load).inProgress
                         /\ sampleTicks' = collectCounters(load).ticks
                         /\ countersCollectionPromise' =
                                collectCounters(load).promise
                         /\ clock' = collectCounters(load).clock
                    /\ countersTimer' = "armed"
                    /\ call' = Idle
                    /\ status' = "started"
    /\ UNCHANGED <<envVars, processesToTrack, refreshVars, dataVars, skipped,
                   stressVars, otherVars>>

\* stop() is called.
StopCall ==
    /\ call.op = "none"
    /\ StopPopulatingProcessInfos("stop")
    /\ UNCHANGED <<envVars, processesToTrack, countersTimer, sampleVars,
                   dataVars, skipped, stressVars, otherVars>>

\* stop() continues after the refresh promise: stopCollecting() awaits the
\* sampling promise.
StopAfterRefresh ==
    /\ call.pc = "stop_awaitRefresh"
    /\ Settled(call.awaiting)
    /\ IF call.awaiting.st = "rejected"
       THEN Throws
       ELSE /\ call' = [call EXCEPT
                          !.pc = "stop_awaitSample1",
                          !.awaiting = countersCollectionPromise,
                          !.waited = @ \/ ~Settled(countersCollectionPromise)]
            /\ UNCHANGED status
    /\ UNCHANGED <<envVars, processesToTrack, processesToTrackTimer,
                   countersTimer, refreshVars, sampleVars, dataVars, skipped,
                   stressVars, otherVars>>

\* stopCollecting() after its first await: the sampling timer is cleared and
\* the sampling promise is awaited again.
StopAfterSample1 ==
    /\ call.pc = "stop_awaitSample1"
    /\ Settled(call.awaiting)
    /\ IF call.awaiting.st = "rejected"
       THEN Throws /\ UNCHANGED countersTimer
       ELSE /\ countersTimer' = "null"
            /\ call' = [call EXCEPT
                          !.pc = "stop_awaitSample2",
                          !.awaiting = countersCollectionPromise,
                          !.waited = @ \/ ~Settled(countersCollectionPromise)]
            /\ UNCHANGED status
    /\ UNCHANGED <<envVars, processesToTrack, processesToTrackTimer,
                   refreshVars, sampleVars, dataVars, skipped, stressVars, otherVars>>

\* stop() after stopCollecting(): computeTotals, then the statistics, whose
\* file is being written when the step ends.
StopAfterSample2 ==
    /\ call.pc = "stop_awaitSample2"
    /\ Settled(call.awaiting)
    /\ IF call.awaiting.st = "rejected" \/ ComputeTotalsThrows
       THEN /\ Throws
            /\ UNCHANGED <<collection, arrays, computedStatistics>>
       ELSE /\ collection' = TotalsCollection
            /\ arrays' = TotalsArrays
            /\ computedStatistics' = ComputeStatistics
            /\ call' = [call EXCEPT !.pc = "stop_writing",
                                    !.awaiting = NullPromise]
            /\ UNCHANGED status
    /\ UNCHANGED <<envVars, processesToTrack, processesToTrackTimer,
                   countersTimer, refreshVars, sampleVars, lastFold, skipped,
                   stressVars, otherVars>>

\* The statistics file is written: stop() returns, and a start() that ran it
\* goes on to startPopulatingProcessInfos().
StopReturns ==
    /\ call.pc = "stop_writing"
    /\ call.op # "reset"
    /\ IF call.op = "stop"
       THEN /\ call' = Idle
            /\ status' = "stopped"
            /\ UNCHANGED refreshVars
       ELSE StartPopulatingProcessInfos
    /\ UNCHANGED <<envVars, processesToTrack, processesToTrackTimer,
                   countersTimer, sampleVars, dataVars, skipped, stressVars, otherVars>>

\* reset() is called: it awaits stop().
ResetCall ==
    /\ call.op = "none"
    /\ StopPopulatingProcessInfos("reset")
    /\ UNCHANGED <<envVars, processesToTrack, countersTimer, sampleVars,
                   dataVars, skipped, stressVars, otherVars>>

\* Map.prototype.clear() on a collection: it removes the entries added with
\* set(). The series are stored as properties of the map object
\* (this.collection[pid] = ...), never with set(), and stay.
clear(properties) == properties

\* The stop() awaited by reset() returns: reset() clears the three
\* collections and returns.
ResetReturns ==
    /\ call.pc = "stop_writing"
    /\ call.op = "reset"
    /\ collection' = clear(collection)
    /\ smaOver4Collection' = clear(smaOver4Collection)
    /\ emaOver4Collection' = clear(emaOver4Collection)
    /\ call' = Idle
    /\ status' = "reset"
    /\ UNCHANGED <<envVars, processesToTrack, processesToTrackTimer,
                   countersTimer, sampleVars, refreshVars, arrays,
                   computedStatistics, lastFold, skipped, stressVars, treeVars,
                   constructorVars, overlapVars>>

\* The refresh timer fires: a refresh starts unless one is in progress.
RefreshTimerFires ==
    /\ processesToTrackTimer = "armed"
    /\ IF ~processesToTrackUpdateInProgress
       THEN /\ CanRefresh
            /\ processesToTrackUpdateInProgress' = getProcessInfos.inProgress
            /\ refreshTicks' = getProcessInfos.ticks
            /\ processesToTrackUpdatePromise' = getProcessInfos.promise
            /\ UNCHANGED skipped
       ELSE /\ skipped' = [skipped EXCEPT !.refresh = TRUE]
            /\ UNCHANGED refreshVars
    /\ UNCHANGED <<envVars, processesToTrack, processesToTrackTimer,
                   countersTimer, sampleVars, dataVars, call, status,
                   stressVars, otherVars>>

\* Mutant of RefreshCompletes: the series of the pids that the refresh no
\* longer lists are dropped from collection.
RefreshCompletesPrunes(slot) ==
    /\ slot \in refreshTicks
    /\ LET tree == getChildrenTree(ThisPid, includeParent, getProcessList)
       IN  /\ tree.kind = "ok"
           /\ processesToTrack' = PidsOf(tree.list)
           /\ collection' =
                  [p \in DOMAIN collection \cap
                            (Range(PidsOf(tree.list)) \cup
                                 {WholeComputerPid, TotalsPid}) |->
                      collection[p]]
    /\ refreshTicks' = refreshTicks \ {slot}
    /\ processesToTrackUpdateInProgress' = FALSE
    /\ processesToTrackUpdatePromise' =
           Settle(processesToTrackUpdatePromise, "refresh", slot, "resolved")
    /\ call' = [call EXCEPT
                  !.awaiting = Settle(@, "refresh", slot, "resolved")]
    /\ skipped' = [skipped EXCEPT !.refresh = FALSE]
    /\ UNCHANGED <<envVars, processesToTrackTimer, countersTimer, sampleVars,
                   arrays, computedStatistics, lastFold, status, stressVars,
                   otherVars>>

\* getChildrenTree resolves: processesToTrack is replaced and the flag cleared.
RefreshCompletes(slot) ==
    /\ slot \in refreshTicks
    /\ LET tree == getChildrenTree(ThisPid, includeParent, getProcessList)
       IN  /\ tree.kind = "ok"
           /\ processesToTrack' = PidsOf(tree.list)
    /\ refreshTicks' = refreshTicks \ {slot}
    /\ processesToTrackUpdateInProgress' = FALSE
    /\ processesToTrackUpdatePromise' =
           Settle(processesToTrackUpdatePromise, "refresh", slot, "resolved")
    /\ call' = [call EXCEPT
                  !.awaiting = Settle(@, "refresh", slot, "resolved")]
    /\ skipped' = [skipped EXCEPT !.refresh = FALSE]
    /\ UNCHANGED <<envVars, processesToTrackTimer, countersTimer, sampleVars,
                   dataVars, status, stressVars, otherVars>>

\* getChildrenTree throws: the refresh promise rejects and the flag stays set.
RefreshFails(slot) ==
    /\ slot \in refreshTicks
    /\ getChildrenTree(ThisPid, includeParent, getProcessList).kind # "ok"
    /\ refreshTicks' = refreshTicks \ {slot}
    /\ processesToTrackUpdatePromise' =
           Settle(processesToTrackUpdatePromise, "refresh", slot, "rejected")
    /\ call' = [call EXCEPT
                  !.awaiting = Settle(@, "refresh", slot, "rejected")]
    /\ UNCHANGED <<envVars, processesToTrack, processesToTrackTimer,
                   countersTimer, processesToTrackUpdateInProgress, sampleVars,
                   dataVars, status, skipped, stressVars, otherVars>>

\* The sampling timer fires: a tick starts unless one is in progress.
SampleTimerFires ==
    /\ countersTimer = "armed"
    /\ IF ~countersCollectionInProgress
       THEN /\ CanSample
            /\ \E load \in 1..MaxLoad :
                 /\ countersCollectionInProgress' =
                        collectCounters(load).inProgress
                 /\ sampleTicks' = collectCounters(load).ticks
                 /\ countersCollectionPromise' = collectCounters(load).promise
                 /\ clock' = collectCounters(load).clock
            /\ UNCHANGED skipped
       ELSE /\ skipped' = [skipped EXCEPT !.sample = TRUE]
            /\ UNCHANGED sampleVars
    /\ UNCHANGED <<envVars, processesToTrack, processesToTrackTimer,
                   countersTimer, refreshVars, dataVars, call, status,
                   stressVars, otherVars>>

\* The samples a resolved pidusage call yields with cs: one per requested pid
\* that is still alive.
SamplesOf(tick) ==
    {WholeComputerSample(tick)} \cup
        {ProcessSample(p, tick) : p \in tick.pids \cap alive}

\* pidusage resolves: the samples are folded into collection, flag cleared.
SampleCompletes(tick) ==
    /\ tick \in sampleTicks
    /\ tick.pids # {}
    /\ collection' = FoldCollection(SamplesOf(tick))
    /\ arrays' = FoldArrays(SamplesOf(tick))
    /\ lastFold' = [n |-> lastFold.n + 1,
                    pids |-> {s.pid : s \in SamplesOf(tick)}]
    /\ sampleTicks' = sampleTicks \ {tick}
    /\ countersCollectionInProgress' = FALSE
    /\ countersCollectionPromise' =
           Settle(countersCollectionPromise, "sample", tick.stamp, "resolved")
    /\ call' = [call EXCEPT
                  !.awaiting = Settle(@, "sample", tick.stamp, "resolved")]
    /\ skipped' = [skipped EXCEPT !.sample = FALSE]
    /\ UNCHANGED <<envVars, processesToTrack, processesToTrackTimer,
                   countersTimer, refreshVars, clock, computedStatistics,
                   status, stressVars, otherVars>>

\* Mutant of SampleFails: the WholeComputer sample cs is folded before the
\* counters of the processes are fetched.
SampleFailsFoldsCs(tick) ==
    /\ tick \in sampleTicks
    /\ tick.pids = {} \/ ~(tick.pids \subseteq alive)
    /\ collection' = FoldCollection({WholeComputerSample(tick)})
    /\ arrays' = FoldArrays({WholeComputerSample(tick)})
    /\ sampleTicks' = sampleTicks \ {tick}
    /\ countersCollectionPromise' =
           Settle(countersCollectionPromise, "sample", tick.stamp, "rejected")
    /\ call' = [call EXCEPT
                  !.awaiting = Settle(@, "sample", tick.stamp, "rejected")]
    /\ UNCHANGED <<envVars, processesToTrack, processesToTrackTimer,
                   countersTimer, refreshVars, countersCollectionInProgress,
                   clock, computedStatistics, lastFold, status, skipped,
                   stressVars, otherVars>>

\* pidusage rejects (no pid given, or a pid has exited): nothing is folded,
\* the sampling promise rejects and the flag stays set.
SampleFails(tick) ==
    /\ tick \in sampleTicks
    /\ tick.pids = {} \/ ~(tick.pids \subseteq alive)
    /\ sampleTicks' = sampleTicks \ {tick}
    /\ countersCollectionPromise' =
           Settle(countersCollectionPromise, "sample", tick.stamp, "rejected")
    /\ call' = [call EXCEPT
                  !.awaiting = Settle(@, "sample", tick.stamp, "rejected")]
    /\ UNCHANGED <<envVars, processesToTrack, processesToTrackTimer,
                   countersTimer, refreshVars, countersCollectionInProgress,
                   clock, dataVars, status, skipped, stressVars, otherVars>>

\* A child of the tracked process starts.
ProcessSpawns ==
    /\ ChildPid \notin alive
    /\ ThisPid \in alive
    /\ alive' = alive \cup {ChildPid}
    /\ UNCHANGED <<includeParent, processesToTrack, processesToTrackTimer,
                   countersTimer, refreshVars, sampleVars, dataVars, call,
                   status, skipped, stressVars, otherVars>>

\* The tracked process, or its child, exits.
ProcessExits(p) ==
    /\ p \in alive \cap {ThisPid, ChildPid}
    /\ alive' = alive \ {p}
    /\ UNCHANGED <<includeParent, processesToTrack, processesToTrackTimer,
                   countersTimer, refreshVars, sampleVars, dataVars, call,
                   status, skipped, stressVars, otherVars>>

\* A Counters object after construction, on a machine where this.pid and its
\* parent run.
CountersConstructed ==
    /\ processesToTrack = <<>>
    /\ processesToTrackTimer = "null"
    /\ countersTimer = "null"
    /\ processesToTrackUpdatePromise = NullPromise
    /\ countersCollectionPromise = NullPromise
    /\ processesToTrackUpdateInProgress = FALSE
    /\ countersCollectionInProgress = FALSE
    /\ refreshTicks = {}
    /\ sampleTicks = {}
    /\ clock = 0
    /\ collection = <<>>
    /\ arrays = <<>>
    /\ computedStatistics = NoStatistics
    /\ call = Idle
    /\ status = "constructed"
    /\ skipped = [refresh |-> FALSE, sample |-> FALSE]
    /\ lastFold = NoFold

CountersInit ==
    /\ includeParent \in BOOLEAN
    /\ alive \in {{ProcessTable[1].pid, ThisPid},
                  {ProcessTable[1].pid, ThisPid, ChildPid}}
    /\ CountersConstructed

CountersNext ==
    \/ StartCall
    \/ StartAfterRefresh
    \/ StopCall
    \/ StopAfterRefresh
    \/ StopAfterSample1
    \/ StopAfterSample2
    \/ StopReturns
    \/ ResetCall
    \/ ResetReturns
    \/ RefreshTimerFires
    \/ \E slot \in 1..MaxOverlap : RefreshCompletes(slot)
    \/ \E slot \in 1..MaxOverlap : RefreshFails(slot)
    \/ SampleTimerFires
    \/ \E tick \in sampleTicks : SampleCompletes(tick)
    \/ \E tick \in sampleTicks : SampleFails(tick)
    \/ ProcessSpawns
    \/ \E p \in alive : ProcessExits(p)

-----------------------------------------------------------------------------
(* The specifications *)

\* No Counters object is in use while Stress.run is examined.
CountersUnused ==
    /\ includeParent = TRUE
    /\ alive = {ProcessTable[1].pid, ThisPid}
    /\ CountersConstructed

\* ---- The Stress constructor: option values as JavaScript has them ----

\* A number is kept in hundredths (ThresholdScale); a string is the numeral
\* it begins with, if any, and the text after it.
Undefined == [type |-> "undefined", numeral |-> FALSE, v |-> 0, rest |-> ""]

Null == [type |-> "null", numeral |-> FALSE, v |-> 0, rest |-> ""]

NotANumber == [type |-> "NaN", numeral |-> FALSE, v |-> 0, rest |-> ""]

Number(n) == [type |-> "number", numeral |-> TRUE, v |-> n, rest |-> ""]

Text(rest) == [type |-> "string", numeral |-> FALSE, v |-> 0, rest |-> rest]

Numeral(n, rest) == [type |-> "string", numeral |-> TRUE, v |-> n, rest |-> rest]

Fields == {"runtime", "dop", "iterations", "passThreshold"}

DefaultStressOptions ==
    [runtime |-> 7200 * ThresholdScale, dop |-> 4 * ThresholdScale,
     iterations |-> 50 * ThresholdScale, passThreshold |-> 95]

\* The decorators of the four properties: @Min, @Max and whether @IsInt.
Decorators ==
    [iterations |-> [min |-> 0, max |-> 1000000 * ThresholdScale, isInt |-> TRUE],
     runtime |-> [min |-> 0, max |-> 72000 * ThresholdScale, isInt |-> FALSE],
     dop |-> [min |-> 1 * ThresholdScale, max |-> 40 * ThresholdScale, isInt |-> TRUE],
     passThreshold |-> [min |-> 0, max |-> 1 * ThresholdScale, isInt |-> FALSE]]

\* Math.trunc of a number kept in hundredths.
Truncate(n) ==
    IF n >= 0 THEN n - (n % ThresholdScale)
    ELSE 0 - ((0 - n) - ((0 - n) % ThresholdScale))

\* parseFloat(process.env.X): the leading numeral of the string, NaN when
\* the variable is absent or the string begins with none.
parseFloat(string) ==
    IF string.type = "string" /\ string.numeral THEN Number(string.v)
    ELSE NotANumber

\* parseInt(process.env.X): the integer part of the leading numeral.
parseInt(string) ==
    IF string.type = "string" /\ string.numeral THEN Number(Truncate(string.v))
    ELSE NotANumber

\* isNaN(value): Number(value) is NaN.  Number(null) and Number('') are 0;
\* a string converts only when all of it is a numeral.
isNaN(value) ==
    CASE value.type = "undefined" -> TRUE
      [] value.type = "NaN" -> TRUE
      [] value.type = "string" -> value.rest # ""
      [] OTHER -> FALSE

\* Variant of nullNanUndefinedEmptyCoalesce written as value || defaultValue:
\* 0 counts as missing too.
coalesceFalsy(value, defaultValue) ==
    IF \/ value.type \in {"null", "undefined", "NaN"}
       \/ (value.type = "number" /\ value.v = 0)
       \/ (value.type = "string" /\ ~value.numeral /\ value.rest = "")
    THEN defaultValue
    ELSE value

\* Variant of nullNanUndefinedEmptyCoalesce that keeps what is not a number.
coalesceOnlyUndefined(value, defaultValue) ==
    IF value.type = "undefined" THEN defaultValue ELSE value

nullNanUndefinedEmptyCoalesce(value, defaultValue) ==
    IF \/ value.type = "null"
       \/ value.type = "undefined"
       \/ isNaN(value)
       \/ (value.type = "string" /\ ~value.numeral /\ value.rest = "")
    THEN defaultValue
    ELSE value

\* getRuntime, getDop, getIterations, getPassThreshold.
Parse(field, string) ==
    IF field \in {"iterations", "dop"} THEN parseInt(string)
    ELSE parseFloat(string)

GetOption(field, input, env) ==
    nullNanUndefinedEmptyCoalesce(input,
        nullNanUndefinedEmptyCoalesce(Parse(field, env[field]),
                                      Number(DefaultStressOptions[field])))

\* The constraints of class-validator that a value of a property breaks.
Constraints(field, value) ==
    LET d == Decorators[field]
        isNumber == value.type = "number"
    IN  {c \in {"isDefined", "isInt", "min", "max"} :
            CASE c = "isDefined" -> value.type \in {"undefined", "null"}
              [] c = "isInt" ->
                    d.isInt /\ ~(isNumber /\ value.v % ThresholdScale = 0)
              [] c = "min" -> ~(isNumber /\ value.v >= d.min)
              [] OTHER -> ~(isNumber /\ value.v <= d.max)}

\* Variant of validateSync that stops at the first property that breaks a
\* constraint.
validateSyncFailFast(this) ==
    LET invalid == {f \in Fields : Constraints(f, this[f]) # {}}
        first == IF "iterations" \in invalid THEN "iterations"
                 ELSE IF "runtime" \in invalid THEN "runtime"
                 ELSE IF "dop" \in invalid THEN "dop"
                 ELSE "passThreshold"
    IN  [f \in invalid \cap {first} |-> Constraints(f, this[f])]

\* validateSync(this): one ValidationError for each property that breaks a
\* constraint, holding all the constraints it breaks.
validateSync(this) ==
    LET invalid == {f \in Fields : Constraints(f, this[f]) # {}}
    IN  [f \in invalid |-> Constraints(f, this[f])]

\* kind: "none" before the call, "instance" when the constructor returned,
\* "threw" when it threw thrown; this holds the properties it assigned.
NotConstructed == [kind |-> "none", this |-> <<>>, thrown |-> <<>>]

\* new Stress(parameters) under the environment env.
NewStress(input, env) ==
    LET this == [f \in Fields |-> GetOption(f, input[f], env)]
        validationErrors == validateSync(this)
    IN  IF DOMAIN validationErrors # {}
        THEN [kind |-> "threw", this |-> this, thrown |-> validationErrors]
        ELSE [kind |-> "instance", this |-> this, thrown |-> <<>>]

NoEnvironment == [f \in Fields |-> Undefined]

ConstructorUnused ==
    /\ environment = NoEnvironment
    /\ parameters = [f \in Fields |-> Undefined]
    /\ constructed = NotConstructed

\* run() was not called: no options resolved, no locals, and no Counters
\* object or RemoteCollector under overlapping calls.
NotMerged == <<>>

NoRuns == <<>>

NoOverlap == <<>>

NoRemote == <<>>

OverlapModelsUnused ==
    /\ effective = NotMerged
    /\ runs = NoRuns
    /\ overlap = NoOverlap
    /\ remote = NoRemote

\* No getChildrenTree call and no moving averages are examined.
NotCalled == [kind |-> "not called", list |-> <<>>]

NoTreeInput ==
    [inputPid |-> ProcessPid, getTreeForParent |-> TRUE, processesList |-> <<>>]

OthersUnused ==
    /\ smaOver4Collection = <<>>
    /\ emaOver4Collection = <<>>
    /\ treeInput = NoTreeInput
    /\ treeResult = NotCalled
    /\ ConstructorUnused
    /\ OverlapModelsUnused

\* No run is in progress while the Counters object is examined.
StressUnused ==
    /\ options = BasicScenario
    /\ StressInit

Init == StressInit /\ CountersUnused /\ OthersUnused

Next == StressNext

Spec == Init /\ [][Next]_vars

CountersSpecInit == StressUnused /\ CountersInit /\ OthersUnused

CountersSpec == CountersSpecInit /\ [][CountersNext]_vars

-----------------------------------------------------------------------------
(* stressify with collectCounters: Counters.CollectPerfCounters around run *)

\* The options of the stressified runs examined together with a sampler.
StressifyConfigs ==
    [dop : {1}, iterations : {MaxIterations}, passThreshold : {50},
     work : {"any"}]

\* `await countersCollector.start()` has returned.
StartNotAwaited == TRUE

StartCompleted == status = "started" /\ call = Idle

\* CollectPerfCounters: new Counters(...) and countersCollector.start().
CollectPerfCountersStart ==
    /\ status = "constructed"
    /\ StartCall

\* CollectPerfCounters: closureForCollection(), which calls stressor.run(...),
\* once the await of start() has returned.
CollectPerfCountersRun ==
    /\ StartCompleted
    /\ Run

\* CollectPerfCounters: countersCollector.stop(), once the await of the
\* closure has returned; a run that throws rejects the closure, and stop()
\* is never called.
CollectPerfCountersStop ==
    /\ phase = "returned"
    /\ status = "started"
    /\ StopCall

StressifyInit ==
    /\ options \in StressifyConfigs
    /\ StressInit
    /\ includeParent = TRUE
    /\ CountersInit
    /\ OthersUnused

StressifyNext ==
    \/ CollectPerfCountersStart
    \/ CollectPerfCountersRun
    \/ \E t \in Loops : IterationPasses(t)
    \/ \E t \in Loops : IterationThrows(t)
    \/ TimerFires
    \/ Join
    \/ CollectPerfCountersStop
    \/ StartAfterRefresh
    \/ StopAfterRefresh
    \/ StopAfterSample1
    \/ StopAfterSample2
    \/ StopReturns
    \/ RefreshTimerFires
    \/ \E slot \in 1..MaxOverlap : RefreshCompletes(slot)
    \/ \E slot \in 1..MaxOverlap : RefreshFails(slot)
    \/ SampleTimerFires
    \/ \E tick \in sampleTicks : SampleCompletes(tick)
    \/ \E tick \in sampleTicks : SampleFails(tick)
    \/ ProcessSpawns
    \/ \E p \in alive : ProcessExits(p)

StressifySpec == StressifyInit /\ [][StressifyNext]_vars

\* Node runs every continuation whose promise has settled, and every
\* pending call settles; the machine's processes come and go as they like.
StressifyFairness ==
    /\ WF_vars(CollectPerfCountersStart)
    /\ WF_vars(CollectPerfCountersRun)
    /\ WF_vars(CollectPerfCountersStop)
    /\ WF_vars(\E t \in Loops : IterationPasses(t) \/ IterationThrows(t))
    /\ WF_vars(Join)
    /\ WF_vars(StartAfterRefresh)
    /\ WF_vars(StopAfterRefresh)
    /\ WF_vars(StopAfterSample1)
    /\ WF_vars(StopAfterSample2)
    /\ WF_vars(StopReturns)
    /\ WF_vars(\E slot \in 1..MaxOverlap :
                  RefreshCompletes(slot) \/ RefreshFails(slot))
    /\ WF_vars(\E tick \in sampleTicks :
                  SampleCompletes(tick) \/ SampleFails(tick))

FairStressifySpec == StressifySpec /\ StressifyFairness

-----------------------------------------------------------------------------
(* Counters.computeMovingAverages on the series it can be given *)

\* An empty slot of an array.
Hole == 0 - 2

RECURSIVE SumOfSeq(_)
SumOfSeq(a) == IF a = <<>> THEN 0 ELSE Head(a) + SumOfSeq(Tail(a))

\* ma(data, size) of moving-averages: an array as long as data whose first
\* size - 1 slots are empty and whose slot i holds the mean of the size
\* values that end at i.
sma(data, size) ==
    [i \in 1..Len(data) |->
        IF i < size THEN Hole
        ELSE SumOfSeq(SubSeq(data, i - size + 1, i)) \div size]

\* ema(data, size) of moving-averages: an array as long as data, its first
\* value data[0], then alpha * data[i] + (1 - alpha) * ema[i-1] with
\* alpha = 2 / (size + 1); the values are kept as exact fractions.
RECURSIVE ema(_, _)
ema(data, size) ==
    IF data = <<>> THEN <<>>
    ELSE IF Len(data) = 1 THEN <<[num |-> data[1], den |-> 1]>>
    ELSE LET front == ema(SubSeq(data, 1, Len(data) - 1), size)
             last == front[Len(front)]
         IN  Append(front,
                    [num |-> 2 * data[Len(data)] * last.den +
                             (size - 1) * last.num,
                     den |-> (size + 1) * last.den])

\* Mutant of slice: nothing is dropped.
sliceNothing(array, start) == array

\* array.slice(start)
slice(array, start) == SubSeq(array, start + 1, Len(array))

IsStamp(prop) == prop \in {"elapsed", "timestamp"}

\* this.smaOver4Collection after computeMovingAverages.
SmaOver4 ==
    [p \in DOMAIN collection |->
        [prop \in DOMAIN collection[p] |->
            IF IsStamp(prop)
            THEN slice(Field(p, prop), DroppedHead)
            ELSE slice(sma(Field(p, prop), MovingAverageSize), DroppedHead)]]

\* this.emaOver4Collection after computeMovingAverages.
EmaOver4 ==
    [p \in DOMAIN collection |->
        [prop \in DOMAIN collection[p] |->
            IF IsStamp(prop)
            THEN Field(p, prop)
            ELSE ema(Field(p, prop), MovingAverageSize)]]

\* computeMovingAverages()
ComputeMovingAverages ==
    /\ collection # <<>>
    /\ smaOver4Collection = <<>>
    /\ smaOver4Collection' = SmaOver4
    /\ emaOver4Collection' = EmaOver4
    /\ UNCHANGED <<treeVars, constructorVars, overlapVars, stressVars,
                   countersVars>>

\* Raw series of n samples: cpu readings 4 or 8, memory and ctime growing,
\* elapsed and timestamp one per tick.
RawSeries ==
    UNION {[cpu : [1..n -> {4, 8}],
            memory : {[i \in 1..n |-> 12 * i]},
            ctime : {[i \in 1..n |-> 4 * i]},
            elapsed : {[i \in 1..n |-> 1000 + i]},
            timestamp : {[i \in 1..n |-> 2000 + i]}] : n \in 0..MaxSamples}

\* A Counters object that holds one collected series, of this.pid.
AveragesInit ==
    /\ \E raw \in RawSeries :
          /\ collection = [p \in {ThisPid} |->
                             [prop \in DOMAIN raw |-> <<p, prop>>]]
          /\ arrays = [r \in {ThisPid} \X DOMAIN raw |-> raw[r[2]]]
    /\ includeParent = TRUE
    /\ alive = {ProcessTable[1].pid, ThisPid}
    /\ processesToTrack = <<ThisPid>>
    /\ processesToTrackTimer = "null"
    /\ countersTimer = "null"
    /\ processesToTrackUpdatePromise = NullPromise
    /\ countersCollectionPromise = NullPromise
    /\ processesToTrackUpdateInProgress = FALSE
    /\ countersCollectionInProgress = FALSE
    /\ refreshTicks = {}
    /\ sampleTicks = {}
    /\ clock = 0
    /\ computedStatistics = NoStatistics
    /\ call = Idle
    /\ status = "constructed"
    /\ skipped = [refresh |-> FALSE, sample |-> FALSE]
    /\ lastFold = NoFold
    /\ smaOver4Collection = <<>>
    /\ emaOver4Collection = <<>>
    /\ treeInput = NoTreeInput
    /\ treeResult = NotCalled
    /\ ConstructorUnused
    /\ OverlapModelsUnused
    /\ StressUnused

AveragesNext == ComputeMovingAverages

AveragesSpec == AveragesInit /\ [][AveragesNext]_vars

-----------------------------------------------------------------------------
(* getChildrenTree on the process lists it can be given *)

\* The list with the pids of S, each with the parent pid ppid[pid].
RECURSIVE ListOf(_, _)
ListOf(S, ppid) ==
    IF S = {} THEN <<>>
    ELSE LET least == CHOOSE p \in S : \A q \in S : p <= q
         IN  <<[pid |-> least, ppid |-> ppid[least]]>> \o
                 ListOf(S \ {least}, ppid)

\* Process lists over the pids 0..MaxPid: any set of processes, any parent
\* pid for each (pid 0 may be its own parent, as the idle process is).
ProcessLists ==
    UNION {{ListOf(S, ppid) : ppid \in [S -> 0..MaxPid]} :
              S \in SUBSET (0..MaxPid)}

TreeInputs ==
    [inputPid : (0..MaxPid) \cup {NullPid, UndefinedPid, NaNPid},
     getTreeForParent : BOOLEAN,
     processesList : ProcessLists]

TreeInit ==
    /\ treeInput \in TreeInputs
    /\ treeResult = NotCalled
    /\ smaOver4Collection = <<>>
    /\ emaOver4Collection = <<>>
    /\ ConstructorUnused
    /\ OverlapModelsUnused
    /\ StressUnused
    /\ CountersUnused

\* One call of getChildrenTree with the arguments of treeInput.
GetChildrenTreeCall ==
    /\ treeResult = NotCalled
    /\ treeResult' = getChildrenTree(treeInput.inputPid,
                                     treeInput.getTreeForParent,
                                     treeInput.processesList)
    /\ UNCHANGED <<treeInput, averagesVars, constructorVars, overlapVars,
                   stressVars, countersVars>>

TreeNext == GetChildrenTreeCall

TreeSpec == TreeInit /\ [][TreeNext]_vars

-----------------------------------------------------------------------------
(* new Stress(parameters): the options resolved and validated *)

TooLow(field) == Decorators[field].min - ThresholdScale

TooHigh(field) == Decorators[field].max + ThresholdScale

\* The constructor arguments tried for each option: absent, values that are
\* not numbers, a valid value, and values outside the range.
ArgumentsOf(field) ==
    CASE field = "runtime" ->
            {Undefined, Null, Number(150), Number(TooLow(field)),
             Number(TooHigh(field))}
      [] field = "dop" ->
            {Undefined, Text("abracadabra"), Number(3 * ThresholdScale),
             Number(150), Number(TooHigh(field))}
      [] field = "iterations" ->
            {Undefined, NotANumber, Number(0), Number(TooLow(field)),
             Number(TooHigh(field))}
      [] OTHER ->
            {Undefined, Text(""), Number(50), Numeral(50, ""),
             Number(TooHigh(field))}

\* The values of the environment variable tried for each option.
EnvironmentOf(field) ==
    CASE field = "runtime" ->
            {Undefined, Text("abracadabra"), Numeral(250, ""),
             Numeral(TooHigh(field), "")}
      [] field = "dop" ->
            {Undefined, Text(""), Numeral(250, ""), Numeral(TooLow(field), "")}
      [] field = "iterations" ->
            {Undefined, Text("abracadabra"),
             Numeral(3 * ThresholdScale, "abracadabra"),
             Numeral(TooHigh(field), "")}
      [] OTHER ->
            {Undefined, Text("abracadabra"), Numeral(88, ""),
             Numeral(TooLow(field), "")}

ConstructorInit ==
    /\ environment \in
          {e \in [Fields -> UNION {EnvironmentOf(f) : f \in Fields}] :
              \A f \in Fields : e[f] \in EnvironmentOf(f)}
    /\ parameters \in
          {a \in [Fields -> UNION {ArgumentsOf(f) : f \in Fields}] :
              \A f \in Fields : a[f] \in ArgumentsOf(f)}
    /\ constructed = NotConstructed
    /\ OverlapModelsUnused
    /\ smaOver4Collection = <<>>
    /\ emaOver4Collection = <<>>
    /\ treeInput = NoTreeInput
    /\ treeResult = NotCalled
    /\ StressUnused
    /\ CountersUnused

\* The constructor runs.
Construct ==
    /\ constructed = NotConstructed
    /\ constructed' = NewStress(parameters, environment)
    /\ UNCHANGED <<environment, parameters, averagesVars, treeVars,
                   overlapVars, stressVars, countersVars>>

ConstructorNext == Construct

ConstructorSpec == ConstructorInit /\ [][ConstructorNext]_vars

-----------------------------------------------------------------------------
(* Stress.run: the options of a call merged with those of the instance *)

\* The instances run() is called on: the singleton made from the defaults,
\* and one made with other valid options.
Instances ==
    {NewStress([f \in Fields |-> Undefined], NoEnvironment),
     NewStress([runtime |-> Number(150), dop |-> Number(3 * ThresholdScale),
                iterations |-> Number(0), passThreshold |-> Number(50)],
               NoEnvironment)}

\* The values given for an option in a call: left out, null, NaN, '', 0 and
\* another number.
PerCallValues ==
    {Undefined, Null, NotANumber, Text(""), Number(0),
     Number(2 * ThresholdScale)}

MergeInit ==
    /\ constructed \in Instances
    /\ parameters \in [Fields -> PerCallValues]
    /\ environment = NoEnvironment
    /\ OverlapModelsUnused
    /\ smaOver4Collection = <<>>
    /\ emaOver4Collection = <<>>
    /\ treeInput = NoTreeInput
    /\ treeResult = NotCalled
    /\ StressUnused
    /\ CountersUnused

\* The first four statements of run(): each option of the call coalesced
\* over the property of the instance.
RunMergesOptions ==
    /\ effective = NotMerged
    /\ effective' = [f \in Fields |->
                        nullNanUndefinedEmptyCoalesce(parameters[f],
                                                      constructed.this[f])]
    /\ UNCHANGED <<runs, overlap, remote, constructorVars, averagesVars,
                   treeVars, stressVars, countersVars>>

MergeNext == RunMergesOptions

MergeSpec == MergeInit /\ [][MergeNext]_vars

-----------------------------------------------------------------------------
(* Stress.run: calls that overlap on one instance *)

\* run() calls made on the instance
MaxRuns == 2

RunOptions ==
    [dop : 1..MaxDop, iterations : 1..MaxIterations, passThreshold : {0, 50}]

\* The state of a call after its synchronous part: the let variables of
\* run() at their initial values, the deadline timer armed, and every
\* IterativeLoop awaiting its first invocation.
NewRun(o, during) ==
    [dop |-> o.dop, iterations |-> o.iterations,
     passThreshold |-> o.passThreshold,
     phase |-> "running",
     pc |-> [t \in 1..o.dop |-> "work"],
     iter |-> [t \in 1..o.dop |-> 0],
     numPasses |-> 0, fails |-> <<>>, errors |-> <<>>,
     timedOut |-> FALSE, timer |-> "armed",
     settled |-> 0, overlapped |-> during]

TwoRunsInit ==
    /\ runs = NoRuns
    /\ effective = NotMerged
    /\ overlap = NoOverlap
    /\ remote = NoRemote
    /\ ConstructorUnused
    /\ smaOver4Collection = <<>>
    /\ emaOver4Collection = <<>>
    /\ treeInput = NoTreeInput
    /\ treeResult = NotCalled
    /\ StressUnused
    /\ CountersUnused

RunsUnchanged ==
    UNCHANGED <<effective, overlap, remote, constructorVars, averagesVars,
                treeVars, stressVars, countersVars>>

\* A call of run() on the instance, made while the calls before it may still
\* be under way.
RunCall(o) ==
    /\ Len(runs) < MaxRuns
    /\ runs' = Append(runs,
                 NewRun(o, \E s \in DOMAIN runs : runs[s].phase = "running"))
    /\ RunsUnchanged

\* The i++ and i < iterations test of loop t of a call.
RunNextIteration(run, t) ==
    IF run.iter[t] + 1 < run.iterations
    THEN [run EXCEPT !.iter[t] = @ + 1]
    ELSE [run EXCEPT !.pc[t] = "done"]

\* The invocation awaited by loop t of call r resolved.
RunIterationPasses(r, t) ==
    /\ runs[r].phase = "running"
    /\ runs[r].pc[t] = "work"
    /\ LET counted == [runs[r] EXCEPT !.numPasses = @ + 1, !.settled = @ + 1]
       IN  runs' = [runs EXCEPT ![r] =
                       IF counted.timedOut
                       THEN [counted EXCEPT !.pc[t] = "done"]
                       ELSE RunNextIteration(counted, t)]
    /\ RunsUnchanged

\* The invocation awaited by loop t of call r threw.
RunIterationThrows(r, t, o) ==
    /\ runs[r].phase = "running"
    /\ runs[r].pc[t] = "work"
    /\ LET caught ==
              IF o = "fail"
              THEN [runs[r] EXCEPT !.fails = Append(@, "AssertionError"),
                                   !.settled = @ + 1]
              ELSE [runs[r] EXCEPT !.errors = Append(@, "ERR_STRESS"),
                                   !.settled = @ + 1]
       IN  runs' = [runs EXCEPT ![r] = RunNextIteration(caught, t)]
    /\ RunsUnchanged

\* Mutant of RunTimerFires: timedOut is a property of the instance, so that
\* the deadline of one call ends every call.
RunTimerFiresSharedFlag(r) ==
    /\ runs[r].timer = "armed"
    /\ runs' = [s \in DOMAIN runs |->
                  IF s = r
                  THEN [runs[s] EXCEPT !.timedOut = TRUE, !.timer = "fired"]
                  ELSE [runs[s] EXCEPT !.timedOut = TRUE]]
    /\ RunsUnchanged

\* The setTimeout callback of call r: it sets the timedOut of its own closure.
RunTimerFires(r) ==
    /\ runs[r].timer = "armed"
    /\ runs' = [runs EXCEPT ![r].timedOut = TRUE, ![r].timer = "fired"]
    /\ RunsUnchanged

\* Promise.all of call r resolved: the total, the assert, the return.
RunJoin(r) ==
    /\ runs[r].phase = "running"
    /\ \A t \in DOMAIN runs[r].pc : runs[r].pc[t] = "done"
    /\ LET total == runs[r].numPasses + Len(runs[r].errors)
                        + Len(runs[r].fails)
       IN  runs' = [runs EXCEPT ![r].phase =
                       IF runs[r].numPasses * ThresholdScale
                              >= runs[r].passThreshold * total
                       THEN "returned" ELSE "threw"]
    /\ RunsUnchanged

TwoRunsNext ==
    \/ \E o \in RunOptions : RunCall(o)
    \/ \E r \in DOMAIN runs :
          \/ \E t \in DOMAIN runs[r].pc :
                \/ RunIterationPasses(r, t)
                \/ \E o \in {"fail", "error"} : RunIterationThrows(r, t, o)
          \/ RunTimerFires(r)
          \/ RunJoin(r)

TwoRunsSpec == TwoRunsInit /\ [][TwoRunsNext]_vars

-----------------------------------------------------------------------------
(* Counters: start() and stop() calls that overlap on one object *)

\* start() and stop() calls made on the object
MaxCalls == 3
\* promises made by timer callbacks
MaxTimerPromises == 3

\* the initial value of the two timer fields
NullTimer == 0
\* the initial value of the two promise fields
NoPromise == 0

\* The object as constructed.  Timer handles and promises are numbered in
\* the order they are made; liveRefresh and liveSampling are the intervals
\* setInterval made and clearInterval has not been given yet.  The process
\* list and pidusage answer every request in this model.
NewCounters ==
    [processesToTrackTimer |-> NullTimer,
     countersTimer |-> NullTimer,
     processesToTrackUpdatePromise |-> NoPromise,
     countersCollectionPromise |-> NoPromise,
     processesToTrackUpdateInProgress |-> FALSE,
     countersCollectionInProgress |-> FALSE,
     liveRefresh |-> {}, liveSampling |-> {},
     handles |-> 0, promises |-> 0, timerPromises |-> 0,
     resolved |-> {},
     refreshing |-> NoPromise, sampling |-> NoPromise,
     sampled |-> FALSE,
     calls |-> <<>>]

OverlapInit ==
    /\ overlap = NewCounters
    /\ runs = NoRuns
    /\ effective = NotMerged
    /\ remote = NoRemote
    /\ ConstructorUnused
    /\ smaOver4Collection = <<>>
    /\ emaOver4Collection = <<>>
    /\ treeInput = NoTreeInput
    /\ treeResult = NotCalled
    /\ StressUnused
    /\ CountersUnused

OverlapUnchanged ==
    UNCHANGED <<effective, runs, remote, constructorVars, averagesVars,
                treeVars, stressVars, countersVars>>

PromiseSettled(o, p) == p = NoPromise \/ p \in o.resolved

\* getProcessInfos(): the promise it returns is o.promises of the result.
\* With the flag set the body is skipped and the promise is resolved at once.
callGetProcessInfos(o) ==
    LET p == o.promises + 1
    IN  IF ~o.processesToTrackUpdateInProgress
        THEN [o EXCEPT !.promises = p, !.refreshing = p,
                       !.processesToTrackUpdateInProgress = TRUE]
        ELSE [o EXCEPT !.promises = p, !.resolved = @ \cup {p}]

\* collectCounters(), in the same way.
callCollectCounters(o) ==
    LET p == o.promises + 1
    IN  IF ~o.countersCollectionInProgress
        THEN [o EXCEPT !.promises = p, !.sampling = p,
                       !.countersCollectionInProgress = TRUE]
        ELSE [o EXCEPT !.promises = p, !.resolved = @ \cup {p}]

\* startPopulatingProcessInfos() of call c up to its await.
startPopulatingProcessInfos(o, c) ==
    IF o.processesToTrackTimer # NullTimer
    THEN [o EXCEPT !.calls[c].pc = "threw"]
    ELSE LET g == callGetProcessInfos(o)
         IN  [g EXCEPT !.processesToTrackUpdatePromise = g.promises,
                       !.calls[c].pc = "startPopulating",
                       !.calls[c].awaits = g.promises]

\* stopPopulatingProcessInfos() of call c up to its await.
stopPopulatingProcessInfos(o, c) ==
    [o EXCEPT !.liveRefresh = @ \ {o.processesToTrackTimer},
              !.processesToTrackTimer = NullTimer,
              !.calls[c].pc = "stopPopulating",
              !.calls[c].awaits = o.processesToTrackUpdatePromise]

NewCall(op, nested) ==
    [op |-> op, pc |-> "called", awaits |-> NoPromise, nested |-> nested]

\* start() up to its first await: stop() first when a timer field is set.
StartCalled ==
    /\ Len(overlap.calls) < MaxCalls
    /\ LET c == Len(overlap.calls) + 1
           stopFirst == \/ overlap.countersTimer # NullTimer
                        \/ overlap.processesToTrackTimer # NullTimer
           o == [overlap EXCEPT !.calls = Append(@, NewCall("start", stopFirst))]
       IN  overlap' = IF stopFirst
                      THEN stopPopulatingProcessInfos(o, c)
                      ELSE startPopulatingProcessInfos(o, c)
    /\ OverlapUnchanged

\* stop() up to its first await.
StopCalled ==
    /\ Len(overlap.calls) < MaxCalls
    /\ LET c == Len(overlap.calls) + 1
           o == [overlap EXCEPT !.calls = Append(@, NewCall("stop", FALSE))]
       IN  overlap' = stopPopulatingProcessInfos(o, c)
    /\ OverlapUnchanged

Resumes(c, at) ==
    /\ overlap.calls[c].pc = at
    /\ PromiseSettled(overlap, overlap.calls[c].awaits)

\* stopPopulatingProcessInfos() returned: stopCollecting() up to its first
\* await.
StopPopulatingReturns(c) ==
    /\ Resumes(c, "stopPopulating")
    /\ overlap' = [overlap EXCEPT
                      !.calls[c].pc = "stopCollecting",
                      !.calls[c].awaits = overlap.countersCollectionPromise]
    /\ OverlapUnchanged

\* stopCollecting() between its two awaits.
StopCollectingClears(c) ==
    /\ Resumes(c, "stopCollecting")
    /\ overlap' = [overlap EXCEPT
                      !.liveSampling = @ \ {overlap.countersTimer},
                      !.countersTimer = NullTimer,
                      !.calls[c].pc = "stopCollected",
                      !.calls[c].awaits = overlap.countersCollectionPromise]
    /\ OverlapUnchanged

\* The rest of stop(): computeTotals() throws when nothing was sampled
\* for this.pid; otherwise stop() returns, and inside start() the call goes
\* on with startPopulatingProcessInfos().
StopFinishes(c) ==
    /\ Resumes(c, "stopCollected")
    /\ overlap' =
         IF ~overlap.sampled
         THEN [overlap EXCEPT !.calls[c].pc = "threw"]
         ELSE IF overlap.calls[c].nested
              THEN startPopulatingProcessInfos(overlap, c)
              ELSE [overlap EXCEPT !.calls[c].pc = "returned"]
    /\ OverlapUnchanged

\* The first list of processes is there: startPopulatingProcessInfos() arms
\* the refresh timer, then startCollecting() runs to its end.
StartPopulatingReturns(c) ==
    /\ Resumes(c, "startPopulating")
    /\ LET h == overlap.handles + 1
           armed == [overlap EXCEPT !.handles = h,
                                    !.processesToTrackTimer = h,
                                    !.liveRefresh = @ \cup {h}]
           g == callCollectCounters(armed)
       IN  overlap' =
             IF armed.countersTimer # NullTimer
             THEN [armed EXCEPT !.calls[c].pc = "threw"]
             ELSE [g EXCEPT !.countersCollectionPromise = g.promises,
                            !.handles = h + 1,
                            !.countersTimer = h + 1,
                            !.liveSampling = @ \cup {h + 1},
                            !.calls[c].pc = "returned"]
    /\ OverlapUnchanged

\* The callback of a refresh interval.
RefreshIntervalFires(h) ==
    /\ h \in overlap.liveRefresh
    /\ overlap.timerPromises < MaxTimerPromises
    /\ ~overlap.processesToTrackUpdateInProgress
    /\ LET g == callGetProcessInfos(overlap)
       IN  overlap' = [g EXCEPT !.processesToTrackUpdatePromise = g.promises,
                                !.timerPromises = @ + 1]
    /\ OverlapUnchanged

\* The callback of a sampling interval.
SamplingIntervalFires(h) ==
    /\ h \in overlap.liveSampling
    /\ overlap.timerPromises < MaxTimerPromises
    /\ ~overlap.countersCollectionInProgress
    /\ LET g == callCollectCounters(overlap)
       IN  overlap' = [g EXCEPT !.countersCollectionPromise = g.promises,
                                !.timerPromises = @ + 1]
    /\ OverlapUnchanged

\* getChildrenTree resolved inside getProcessInfos.
ProcessInfosArrive ==
    /\ overlap.refreshing # NoPromise
    /\ overlap' = [overlap EXCEPT
                      !.processesToTrackUpdateInProgress = FALSE,
                      !.resolved = @ \cup {overlap.refreshing},
                      !.refreshing = NoPromise]
    /\ OverlapUnchanged

\* getCounters resolved inside collectCounters and the samples were folded.
CountersArrive ==
    /\ overlap.sampling # NoPromise
    /\ overlap' = [overlap EXCEPT
                      !.countersCollectionInProgress = FALSE,
                      !.resolved = @ \cup {overlap.sampling},
                      !.sampling = NoPromise,
                      !.sampled = TRUE]
    /\ OverlapUnchanged

OverlapNext ==
    \/ StartCalled
    \/ StopCalled
    \/ \E c \in DOMAIN overlap.calls :
          \/ StopPopulatingReturns(c)
          \/ StopCollectingClears(c)
          \/ StopFinishes(c)
          \/ StartPopulatingReturns(c)
    \/ \E h \in overlap.liveRefresh : RefreshIntervalFires(h)
    \/ \E h \in overlap.liveSampling : SamplingIntervalFires(h)
    \/ ProcessInfosArrive
    \/ CountersArrive

OverlapSpec == OverlapInit /\ [][OverlapNext]_vars

-----------------------------------------------------------------------------
(* RemoteCollector: the parent, the collector process and their channel *)

\* start() and stop() calls made on the RemoteCollector
MaxRemoteCalls == 3

\* a field that was never assigned
UndefinedPromise == 0

\* The RemoteCollector after its constructor: the child is spawned, the
\* construct message is on its way and counterConstructionPromise is
\* pending.  Promises are numbered in the order they are made.  history is
\* what the parent sent, received and did, in order.
NewRemoteCollector ==
    [counterConstructionPromise |-> 1,
     startPromise |-> UndefinedPromise,
     stopPromise |-> UndefinedPromise,
     promises |-> 1,
     resolved |-> {},
     toChild |-> <<"Construct">>,
     toParent |-> <<>>,
     jobs |-> [StartCounters |-> 0, StopCounters |-> 0],
     killed |-> FALSE,
     calls |-> <<>>,
     history |-> <<>>]

RemoteInit ==
    /\ remote = NewRemoteCollector
    /\ runs = NoRuns
    /\ effective = NotMerged
    /\ overlap = NoOverlap
    /\ ConstructorUnused
    /\ smaOver4Collection = <<>>
    /\ emaOver4Collection = <<>>
    /\ treeInput = NoTreeInput
    /\ treeResult = NotCalled
    /\ StressUnused
    /\ CountersUnused

RemoteUnchanged ==
    UNCHANGED <<effective, runs, overlap, constructorVars, averagesVars,
                treeVars, stressVars, countersVars>>

\* await of the value a promise field held: a value that is no promise does
\* not hold the caller back.
Awaited(p) == p = UndefinedPromise \/ p \in remote.resolved

\* collectorProcess.send(message): a message sent to a killed process is lost.
SendToChild(r, message) ==
    [r EXCEPT !.toChild = IF r.killed THEN @ ELSE Append(@, message),
              !.history = Append(@, message)]

\* start() up to its first await.
RemoteStartCalled ==
    /\ Len(remote.calls) < MaxRemoteCalls
    /\ remote' = [remote EXCEPT !.calls = Append(@,
                     [op |-> "start", pc |-> "awaitConstruction",
                      awaits |-> remote.counterConstructionPromise])]
    /\ RemoteUnchanged

\* stop() up to its first await.
RemoteStopCalled ==
    /\ Len(remote.calls) < MaxRemoteCalls
    /\ remote' = [remote EXCEPT !.calls = Append(@,
                     [op |-> "stop", pc |-> "awaitStart",
                      awaits |-> remote.startPromise])]
    /\ RemoteUnchanged

\* start() between its two awaits.
StartSendsStartCounters(c) ==
    /\ remote.calls[c].pc = "awaitConstruction"
    /\ Awaited(remote.calls[c].awaits)
    /\ LET p == remote.promises + 1
       IN  remote' = SendToChild(
                        [remote EXCEPT !.promises = p, !.startPromise = p,
                                       !.calls[c].pc = "awaitStartDone",
                                       !.calls[c].awaits = p],
                        "StartCounters")
    /\ RemoteUnchanged

\* start() after its second await.
RemoteStartReturns(c) ==
    /\ remote.calls[c].pc = "awaitStartDone"
    /\ Awaited(remote.calls[c].awaits)
    /\ remote' = [remote EXCEPT !.calls[c].pc = "returned"]
    /\ RemoteUnchanged

\* stop() between its two awaits.
StopSendsStopCounters(c) ==
    /\ remote.calls[c].pc = "awaitStart"
    /\ Awaited(remote.calls[c].awaits)
    /\ LET p == remote.promises + 1
       IN  remote' = SendToChild(
                        [remote EXCEPT !.promises = p, !.stopPromise = p,
                                       !.calls[c].pc = "awaitStopDone",
                                       !.calls[c].awaits = p],
                        "StopCounters")
    /\ RemoteUnchanged

\* stop() after its second await: collectorProcess.kill().
StopKillsChild(c) ==
    /\ remote.calls[c].pc = "awaitStopDone"
    /\ Awaited(remote.calls[c].awaits)
    /\ remote' = [remote EXCEPT !.calls[c].pc = "returned",
                                !.killed = TRUE,
                                !.toChild = <<>>,
                                !.jobs = [StartCounters |-> 0,
                                          StopCounters |-> 0],
                                !.history = Append(@, "kill")]
    /\ RemoteUnchanged

\* The child's processMessage up to its await: the construct message is
\* answered at once, a method message starts counters.start() or
\* counters.stop().
ChildProcessMessage ==
    /\ ~remote.killed
    /\ remote.toChild # <<>>
    /\ LET message == Head(remote.toChild)
           taken == [remote EXCEPT !.toChild = Tail(@)]
       IN  remote' = IF message = "Construct"
                     THEN [taken EXCEPT !.toParent =
                                           Append(@, "ConstructionDone")]
                     ELSE [taken EXCEPT !.jobs[message] = @ + 1]
    /\ RemoteUnchanged

Response(message) ==
    IF message = "StartCounters" THEN "StartDone" ELSE "StopDone"

\* processCollectorMethod after its await: the response is sent.
ChildMethodDone(message) ==
    /\ ~remote.killed
    /\ remote.jobs[message] > 0
    /\ remote' = [remote EXCEPT !.jobs[message] = @ - 1,
                                !.toParent = Append(@, Response(message))]
    /\ RemoteUnchanged

\* counters.start() or counters.stop() rejected in the child: nothing is sent.
ChildMethodRejects(message) ==
    /\ ~remote.killed
    /\ remote.jobs[message] > 0
    /\ remote' = [remote EXCEPT !.jobs[message] = @ - 1]
    /\ RemoteUnchanged

\* The promise field a response resolves.
PromiseOf(r, response) ==
    CASE response = "ConstructionDone" -> r.counterConstructionPromise
      [] response = "StartDone" -> r.startPromise
      [] response = "StopDone" -> r.stopPromise

\* The parent's processMessage: the promise the field holds now is resolved.
ParentProcessMessage ==
    /\ remote.toParent # <<>>
    /\ LET response == Head(remote.toParent)
       IN  remote' = [remote EXCEPT
                         !.toParent = Tail(@),
                         !.resolved = @ \cup {PromiseOf(remote, response)},
                         !.history = Append(@, response)]
    /\ RemoteUnchanged

RemoteNext ==
    \/ RemoteStartCalled
    \/ RemoteStopCalled
    \/ \E c \in DOMAIN remote.calls :
          \/ StartSendsStartCounters(c)
          \/ RemoteStartReturns(c)
          \/ StopSendsStopCounters(c)
          \/ StopKillsChild(c)
    \/ ChildProcessMessage
    \/ \E message \in {"StartCounters", "StopCounters"} :
          \/ ChildMethodDone(message)
          \/ ChildMethodRejects(message)
    \/ ParentProcessMessage

RemoteSpec == RemoteInit /\ [][RemoteNext]_vars

-----------------------------------------------------------------------------
(* Properties of the Stress constructor *)

Constructed == constructed.kind # "none"

IsNumber(value) == value.type = "number"

\* A string that is a numeral and nothing else.
IsNumericString(value) ==
    value.type = "string" /\ value.numeral /\ value.rest = ""

\* A variable that is absent, empty or holds text that begins with no numeral.
NotSet(value) ==
    value.type = "undefined" \/ (value.type = "string" /\ ~value.numeral)

\* What the environment variable of a field stands for: iterations and dop
\* are read as integers, runtime and passThreshold as fractions.
EnvironmentValue(field) ==
    IF Decorators[field].isInt THEN Truncate(environment[field].v)
    ELSE environment[field].v

Absent(value) ==
    \/ value.type \in {"undefined", "null", "NaN"}
    \/ (value.type = "string" /\ ~value.numeral /\ value.rest = "")

\* C39: run() resolves each option on its own: a number given in the call,
\* 0 included, is the effective value; an absent value (undefined, null, NaN
\* or '') leaves the value of the instance.
C39_PerCallOptionsOverrideInstance ==
    effective # NotMerged =>
        \A f \in Fields :
            /\ IsNumber(parameters[f]) => effective[f] = parameters[f]
            /\ Absent(parameters[f]) => effective[f] = constructed.this[f]

\* A call that gives iterations 0 and passThreshold 0 and leaves dop null
\* and runtime '' on an instance whose values are not 0.
C39_Witness ==
    /\ effective # NotMerged
    /\ parameters.iterations = Number(0) /\ effective.iterations = Number(0)
    /\ parameters.passThreshold = Number(0)
    /\ parameters.dop = Null /\ effective.dop = Number(DefaultStressOptions.dop)
    /\ parameters.runtime = Text("")
    /\ effective.runtime = Number(DefaultStressOptions.runtime)

-----------------------------------------------------------------------------
(* Properties of overlapping Stress.run calls *)

RunEnded(r) == runs[r].phase \in {"returned", "threw"}

\* C34: run() calls that overlap on one Stress instance keep their own
\* accumulators and their own deadline: what a call counted is the invocations
\* of its own loops that settled, never more than its own dop * iterations,
\* and a call is timed out only by its own timer.
C34_OverlappingRunsKeepOwnLocals ==
    \A r \in DOMAIN runs :
        /\ runs[r].numPasses + Len(runs[r].fails) + Len(runs[r].errors)
               = runs[r].settled
        /\ runs[r].settled <= runs[r].dop * runs[r].iterations
        /\ runs[r].timedOut => runs[r].timer = "fired"

\* Two calls overlapped and both ended; the deadline of the first fired and
\* cut it short, the second ran all its iterations with its timer untouched.
C34_Witness ==
    /\ Len(runs) = MaxRuns
    /\ runs[2].overlapped
    /\ RunEnded(1) /\ RunEnded(2)
    /\ runs[1].timedOut
    /\ runs[1].settled < runs[1].dop * runs[1].iterations
    /\ ~runs[2].timedOut
    /\ runs[2].timer = "armed"
    /\ runs[2].settled = runs[2].dop * runs[2].iterations
    /\ runs[2].numPasses # runs[1].numPasses

-----------------------------------------------------------------------------
(* Properties of overlapping Counters calls *)

\* C35: whatever the interleaving of overlapping start() and stop() calls,
\* every interval that is armed is the one its timer field holds, so that at
\* most one refresh timer and one sampling timer are armed and no handle is
\* overwritten while still armed.
C35_AtMostOneTimerOfEachKind ==
    /\ overlap.liveRefresh \subseteq {overlap.processesToTrackTimer}
    /\ overlap.liveSampling \subseteq {overlap.countersTimer}

-----------------------------------------------------------------------------
(* Properties of the RemoteCollector *)

\* Event `first` stands in the parent's history before entry i.
Before(first, i) ==
    \E j \in 1..(i - 1) : remote.history[j] = first

\* C40: on the parent's side StartCounters is sent only after
\* ConstructionDone was received, StopCounters only after StartDone was
\* received, and the child is killed only after StopDone was received.
C40_ParentProtocolOrdered ==
    \A i \in DOMAIN remote.history :
        /\ remote.history[i] = "StartCounters" => Before("ConstructionDone", i)
        /\ remote.history[i] = "StopCounters" => Before("StartDone", i)
        /\ remote.history[i] = "kill" => Before("StopDone", i)

\* A resolved number that lies outside the declared range of its field, or
\* is fractional where an integer is declared.
OutOfRange(field, value) ==
    /\ IsNumber(value)
    /\ \/ value.v < Decorators[field].min
       \/ value.v > Decorators[field].max
       \/ Decorators[field].isInt /\ value.v % ThresholdScale # 0

InvalidFields == {f \in Fields : OutOfRange(f, constructed.this[f])}

\* C22: when a resolved option lies outside its declared range the
\* constructor throws and produces no instance; the thrown collection holds
\* one violation for every invalid field, and none for a field whose value
\* is a number inside its range.
C22_AllViolationsThrown ==
    Constructed =>
        /\ InvalidFields # {} => constructed.kind = "threw"
        /\ InvalidFields \subseteq DOMAIN constructed.thrown
        /\ \A f \in DOMAIN constructed.thrown :
              f \in InvalidFields \/ ~IsNumber(constructed.this[f])

C22_Witness ==
    /\ constructed.kind = "threw"
    /\ Cardinality(InvalidFields) >= 2
    /\ InvalidFields # Fields

\* A value that is no number: NaN, or text that is not a numeral.
NonNumeric(value) ==
    value.type = "NaN" \/ (value.type = "string" /\ ~value.numeral /\ value.rest # "")

\* C23: a non-numeric value given for an option, through its environment
\* variable or as constructor argument, makes the constructor throw the
\* validation errors.
C23_NonNumericValueThrows ==
    (Constructed /\ \E f \in Fields :
                       NonNumeric(parameters[f]) \/ NonNumeric(environment[f])) =>
        constructed.kind = "threw"

-----------------------------------------------------------------------------
(* Properties of Stress.run *)

Ended == phase \in {"returned", "threw"}

Total == numPasses + Len(fails) + Len(errors)

InFlight == Cardinality({t \in DOMAIN pc : pc[t] = "work"})

\* C1: every attempted invocation is counted in exactly one of numPasses,
\* fails and errors: while the run is under way the three accumulators plus
\* the invocations still in flight add up to the invocations made, at the
\* threshold check they add up to the invocations made, and when the deadline
\* cut no loop short that is dop * iterations.
C1_TotalCountsAttempts ==
    /\ Total + InFlight = invocations
    /\ Ended => Total = invocations
    /\ (Ended /\ ~cutShort) => Total = options.dop * options.iterations

\* C1 witness: a run that ended, not cut short, with passes, failures and errors.
C1_Witness ==
    /\ Ended /\ ~cutShort
    /\ numPasses > 0 /\ Len(fails) > 0 /\ Len(errors) > 0
    /\ Total = options.dop * options.iterations

\* C2: once the loops have finished, run() raises the threshold failure
\* exactly when numPasses < passThreshold * total and otherwise returns
\* {numPasses, fails, errors}; with passThreshold = 0 it never raises.
C2_ThresholdVerdict ==
    Ended =>
        /\ (phase = "threw") <=>
              (numPasses * ThresholdScale < options.passThreshold * Total)
        /\ phase = "returned" =>
              result = [numPasses |-> numPasses, fails |-> fails, errors |-> errors]
        /\ options.passThreshold = 0 => phase = "returned"

\* C2 witness: a run that raised the threshold failure although some
\* iterations passed.
C2_Witness ==
    /\ phase = "threw"
    /\ numPasses > 0
    /\ options.passThreshold < ThresholdScale

\* The counts the every-7th / every-11th pattern predicts for n invocations.
PredictedFails(n) == Cardinality({k \in 1..n : k % FailEvery = 0})
PredictedErrors(n) ==
    Cardinality({k \in 1..n : k % FailEvery # 0 /\ k % ErrorEvery = 0})

\* C3: in every interleaving the accumulators equal the outcomes of the
\* unit of work: numPasses the invocations that resolved, fails.length those
\* that threw an AssertionError, errors.length those that threw anything
\* else; with the every-7th / every-11th unit of work the final fails and
\* errors are the counts the pattern predicts, and the always-succeeding run
\* with dop = 5, iterations = 6 that no deadline cut short returns 30 passes.
C3_CountsMatchOutcomes ==
    /\ numPasses = outcomes.pass
    /\ Len(fails) = outcomes.fail
    /\ Len(errors) = outcomes.error
    /\ (Ended /\ options.work = "failedErroredExecutions") =>
          /\ Len(fails) = PredictedFails(invocations)
          /\ Len(errors) = PredictedErrors(invocations)
    /\ (Ended /\ options = BasicScenario /\ ~cutShort) =>
          /\ phase = "returned"
          /\ result = [numPasses |-> 30, fails |-> <<>>, errors |-> <<>>]

\* C3 witness: the pattern run ended after 12 invocations with the 7th
\* counted as a failure and the 11th as an error.
C3_Witness ==
    /\ Ended
    /\ options.work = "failedErroredExecutions"
    /\ invocations = 12
    /\ Len(fails) = 1 /\ Len(errors) = 1 /\ numPasses = 10

\* C4 (as claimed): once the deadline timer has set timedOut, no loop starts
\* a further invocation of the unit of work.
C4_NoInvocationAfterDeadline ==
    [][timedOut => invocations' = invocations]_vars

\* C15: a run with iterations = 0 attempts no invocation, has total 0, and
\* returns {numPasses: 0, fails: [], errors: []} without raising, whatever
\* passThreshold is.
C15_ZeroIterationsPassVacuously ==
    options.iterations = 0 =>
        /\ invocations = 0
        /\ Total = 0
        /\ phase # "threw"
        /\ Ended => result = [numPasses |-> 0, fails |-> <<>>, errors |-> <<>>]

\* A run with iterations = 0 and passThreshold = 1 has returned.
C15_Witness ==
    /\ options.iterations = 0
    /\ options.passThreshold = 100
    /\ phase = "returned"

\* The deadline timer fired before any invocation settled: what a zero
\* runtime gives, setTimeout(cb, 0) being due at the first turn of the event
\* loop after run() has spawned its loops.
DeadlineFiredFirst ==
    /\ timer = "fired"
    /\ outcomes = [pass |-> 0, fail |-> 0, error |-> 0]

\* C16: a run whose deadline is due at once (runtime = 0), with
\* iterations > 0, attempts no invocation in any loop.
C16_ZeroRuntimeAttemptsNothing ==
    (options.iterations > 0 /\ DeadlineFiredFirst) => invocations = 0

\* C17: run() starts exactly dop loops, each with at most one invocation in
\* flight and at most `iterations` attempts, so at most dop invocations are in
\* flight and numPasses <= dop * iterations.
C17_LoopsAndAttemptsBounded ==
    phase # "idle" =>
        /\ DOMAIN pc = 1..options.dop
        /\ InFlight <= options.dop
        /\ \A t \in DOMAIN pc : pc[t] = "work" => iter[t] < options.iterations
        /\ invocations <= options.dop * options.iterations
        /\ numPasses <= options.dop * options.iterations

\* All dop loops are in flight with their last invocation.
C17_Witness ==
    /\ options.dop = MaxDop
    /\ options.iterations = MaxIterations
    /\ InFlight = options.dop
    /\ invocations = options.dop * options.iterations

\* C24: the step in which a loop increments numPasses ends at the zero-delay
\* yield: in that step the loop neither leaves nor starts its next invocation,
\* so the deadline timer and the sibling loops can run before it tests
\* timedOut.
C24_YieldsBeforeTestingTimedOut ==
    [][numPasses' # numPasses =>
          /\ invocations' = invocations
          /\ \A t \in DOMAIN pc : pc'[t] = "done" => pc[t] = "done"]_vars

\* C27: the firing of the deadline timer sets timedOut and changes nothing
\* else of the run: the counters, the loops and the invocations in flight are
\* as before; every invocation started is counted when the run ends.
C27_DeadlineOnlySetsTimedOut ==
    /\ [][(timer = "armed" /\ timer' = "fired") =>
              /\ timedOut'
              /\ UNCHANGED <<numPasses, fails, errors, iter, pc, pending,
                             invocations, outcomes, phase, result>>]_vars
    /\ [](Ended => Total = invocations)

\* The deadline fired in mid-run and cut a loop short; the run has ended with
\* every invocation it made counted.
C27_Witness ==
    /\ Ended /\ cutShort
    /\ timer = "fired"
    /\ invocations > 0
    /\ Total = invocations

\* C28: the threshold check happens only once every loop has finished: when
\* run() has returned or raised no invocation is in flight, and none starts
\* afterwards.
C28_VerdictAfterAllLoops ==
    /\ [](Ended => InFlight = 0 /\ \A t \in DOMAIN pc : pc[t] = "done")
    /\ [][Ended => invocations' = invocations /\ pc' = pc]_vars
    /\ [][(phase = "running" /\ phase' # "running") => InFlight = 0]_vars

\* run() raised the threshold failure after all dop loops made all their
\* iterations.
C28_Witness ==
    /\ phase = "threw"
    /\ options.dop = MaxDop
    /\ InFlight = 0
    /\ invocations = options.dop * options.iterations

\* C33: when run() has returned or raised, its deadline timer is no longer
\* armed: it has fired or was cleared.
C33_DeadlineTimerNotLeftArmed ==
    Ended => timer # "armed"

-----------------------------------------------------------------------------
(* Properties of Counters *)

\* C5: at most one sampling tick and at most one process-tree refresh are in
\* flight in every reachable state, and no step taken while a tick (a refresh)
\* is outstanding starts or queues another one.
C5_AtMostOneInFlight ==
    [][/\ Cardinality(sampleTicks') <= 1
       /\ Cardinality(refreshTicks') <= 1
       /\ sampleTicks # {} => sampleTicks' \subseteq sampleTicks
       /\ refreshTicks # {} => refreshTicks' \subseteq refreshTicks]_vars

\* The sampling timer fired, and was skipped, while a tick was in flight.
C5_Witness ==
    /\ countersTimer = "armed"
    /\ sampleTicks # {}
    /\ skipped.sample

\* C6: from the moment computeTotals starts no sampling tick and no refresh is
\* in flight, and once stop() has completed no tick is started and no tick
\* writes to collection until start() is called again.
C6_StopAwaitsTicks ==
    [][/\ call'.pc = "stop_writing" => sampleTicks' = {} /\ refreshTicks' = {}
       /\ (status = "stopped" /\ call.op # "start") =>
              /\ sampleTicks' = {}
              /\ lastFold' = lastFold
              /\ countersTimer' = "null"]_vars

\* stop() found a tick or a refresh in flight, waited for it, and has computed
\* the totals over the ticks folded.
C6_Witness ==
    /\ call.op = "stop"
    /\ call.pc = "stop_writing"
    /\ call.waited
    /\ lastFold.n > 0

\* C7: every series of collection, the Totals series included, has all of its
\* sequence fields of equal length at every observation point.
C7_SeriesFieldsEqualLength ==
    \A p \in DOMAIN collection :
        \A f, g \in DOMAIN collection[p] :
            Len(Field(p, f)) = Len(Field(p, g))

\* The sum over the tracked processes that have data at index i of field f.
RECURSIVE SumOfData(_, _, _)
SumOfData(pids, f, i) ==
    IF pids = {} THEN 0
    ELSE LET p == CHOOSE q \in pids : TRUE
             own == IF p \in DOMAIN collection /\ i \in DOMAIN Field(p, f)
                    THEN Field(p, f)[i] ELSE 0
         IN  own + SumOfData(pids \ {p}, f, i)

\* C8: when computeTotals has run, the Totals series has one entry per
\* timestamp index of the series of this.pid, and its cpu, memory and ctime at
\* index i are the sums of the tracked processes' values at index i.
C8_TotalsAreSums ==
    call.pc = "stop_writing" =>
        \A f \in {"cpu", "memory", "ctime"} :
            /\ Len(Field(TotalsPid, f)) = Len(Field(ThisPid, "timestamp"))
            /\ \A i \in DOMAIN Field(TotalsPid, f) :
                   Field(TotalsPid, f)[i] =
                       SumOfData(Range(processesToTrack), f, i)

\* C9: a tracked process without data at an index contributes 0 there: no
\* total computed by computeTotals is NaN.
C9_MissingDataCountsAsZero ==
    call.pc = "stop_writing" =>
        \A f \in {"cpu", "memory", "ctime"} :
            \A i \in DOMAIN Field(TotalsPid, f) : Field(TotalsPid, f)[i] # NaN

\* The length of field f of the series of p, 0 when there is none yet.
LengthOf(p, f) ==
    IF p \in DOMAIN collection /\ f \in DOMAIN collection[p]
    THEN Len(Field(p, f)) ELSE 0

\* C10: a successful tick appends exactly one element to every sequence field
\* of the series of every pid in its samples and leaves every other series as
\* it was.
C10_TickAppendsOnePerField ==
    [][lastFold'.n = lastFold.n + 1 =>
         \A p \in DOMAIN collection' :
            IF p \in lastFold'.pids
            THEN \A f \in DOMAIN collection'[p] :
                    Len(arrays'[collection'[p][f]]) = LengthOf(p, f) + 1
            ELSE /\ p \in DOMAIN collection
                 /\ \A f \in DOMAIN collection'[p] :
                        /\ f \in DOMAIN collection[p]
                        /\ arrays'[collection'[p][f]] = Field(p, f)]_vars

TimersActive == countersTimer # "null" \/ processesToTrackTimer # "null"

\* C19 as the code has it: start() called while a timer is active raises
\* nothing at the call; it first runs stop() and then starts again, and it
\* ends by throwing only when a promise it awaited was rejected or
\* computeTotals threw, never on the timer asserts.
C19_StartWhileActiveStopsFirst ==
    [][/\ call.op = "none" => status' = status
       /\ (call.op = "none" /\ call'.op = "start" /\ TimersActive) =>
              call'.pc = "stop_awaitRefresh"
       /\ (call.op = "start" /\ call' = Idle /\ status' = "start threw") =>
              \/ call.awaiting.st = "rejected"
              \/ call.pc = "stop_awaitSample2" /\ ComputeTotalsThrows]_vars

\* A start() called while the timers were active has run stop() to its end.
C19_Witness ==
    /\ call.op = "start"
    /\ call.pc = "stop_writing"

\* C19 as stated: start() gets under way only when no timer is active; called
\* while a timer is active it raises instead.
C19_StartWhileActiveRaises ==
    [][(call.op = "none" /\ call'.op = "start") => ~TimersActive]_vars

\* C20: once reset() has returned, both timers are cleared and the
\* collection and the two moving-average collections hold no series for any
\* pid.
C20_ResetLeavesNoSeries ==
    (status = "reset" /\ call = Idle) =>
        /\ ~TimersActive
        /\ DOMAIN collection = {}
        /\ DOMAIN smaOver4Collection = {}
        /\ DOMAIN emaOver4Collection = {}

\* C25: when no sampling tick (no refresh) is in flight the guard flag of
\* its loop is false, whether the last tick ended normally or failed.
C25_FlagClearedWhenTickEnds ==
    /\ sampleTicks = {} => ~countersCollectionInProgress
    /\ refreshTicks = {} => ~processesToTrackUpdateInProgress

StartReturns == call.op = "start" /\ call' = Idle /\ status' = "started"

\* C29 as the code has it: start() kicks off the first sampling tick and arms
\* the sampling timer in one step and returns without awaiting the tick: when
\* it returns the timer is armed, the guard flag is set, the tick it kicked
\* off is in flight, and it has folded nothing into collection.
C29_StartKicksOffFirstTick ==
    [][StartReturns =>
          /\ countersTimer = "null" /\ countersTimer' = "armed"
          /\ countersCollectionInProgress'
          /\ collection' = collection /\ lastFold' = lastFold
          /\ ~countersCollectionInProgress =>
                 \E tick \in sampleTicks' \ sampleTicks : tick.stamp = clock']_vars

\* start() has returned, its first tick is in flight and nothing is folded.
C29_Witness ==
    /\ status = "started"
    /\ call = Idle
    /\ countersTimer = "armed"
    /\ sampleTicks # {}
    /\ lastFold.n = 0

\* C29 as stated: when start() returns the first tick is complete and its
\* samples are folded into collection.
C29_FirstTickFoldedWhenStartReturns ==
    [][StartReturns => sampleTicks' = {} /\ lastFold'.n > 0]_vars

\* C30: every sampling tick samples a tracked set produced by a completed
\* refresh, never the initial empty set.
C30_TicksSampleRefreshedSet ==
    \A tick \in sampleTicks : tick.pids # {}

\* The series sampled from the machine: those of real pids and WholeComputer.
SampledSeries == DOMAIN collection \ {TotalsPid}

\* C31: index i of the series of every pid was recorded in the same tick as
\* index i of the WholeComputer series and, where the root pid has an index
\* i, of the series of the root pid.
C31_SeriesAlignedByIndex ==
    \A p \in SampledSeries :
        \A i \in DOMAIN Field(p, "timestamp") :
            /\ Field(p, "timestamp")[i] =
                   ElementAt(Field(WholeComputerPid, "timestamp"), i)
            /\ (/\ ThisPid \in DOMAIN collection
                /\ i \in DOMAIN Field(ThisPid, "timestamp")) =>
                   Field(p, "timestamp")[i] = Field(ThisPid, "timestamp")[i]

\* A tick or a refresh fails in this step: its promise becomes rejected.
TickFails ==
    \/ /\ countersCollectionPromise.st = "pending"
       /\ countersCollectionPromise'.st = "rejected"
    \/ /\ processesToTrackUpdatePromise.st = "pending"
       /\ processesToTrackUpdatePromise'.st = "rejected"

\* C32: a sampling tick or a refresh that fails leaves collection as it was:
\* no series gains, loses or changes an element.
C32_FailedTickLeavesSeriesUnchanged ==
    [][TickFails => collection' = collection /\ arrays' = arrays]_vars

\* A sampling tick failed after an earlier tick had been folded.
C32_Witness ==
    /\ countersCollectionPromise.st = "rejected"
    /\ lastFold.n > 0

\* C37: a stop() called when both timers are null (never started, or
\* stopped before) completes without raising and leaves both timers null.
C37_StopToleratesNullTimers ==
    [][(/\ call.op = "stop"
        /\ status \in {"constructed", "stopped"}
        /\ call' = Idle) => status' = "stopped" /\ ~TimersActive']_vars

IsPrefix(old, new) ==
    /\ Len(old) <= Len(new)
    /\ \A i \in DOMAIN old : new[i] = old[i]

\* C38: the series of a real pid and of WholeComputer are append-only: no
\* step removes such a series or one of its fields, or shortens or alters
\* what it holds.
C38_SeriesAppendOnly ==
    [][~(call.op = "reset" /\ call' = Idle) =>
       \A p \in SampledSeries :
          /\ p \in DOMAIN collection'
          /\ \A f \in DOMAIN collection[p] :
                 /\ f \in DOMAIN collection'[p]
                 /\ IsPrefix(Field(p, f), arrays'[collection'[p][f]])]_vars

\* A pid that was dropped from the tracked set keeps its data after stop()
\* and a later start() that sampled again.
C38_Witness ==
    /\ status = "started"
    /\ ChildPid \in DOMAIN collection
    /\ ThisPid \in DOMAIN collection
    /\ ChildPid \notin Range(processesToTrack)
    /\ Len(Field(ChildPid, "timestamp")) < Len(Field(ThisPid, "timestamp"))
    /\ TotalsPid \in DOMAIN collection

-----------------------------------------------------------------------------
(* Properties of stressify with counter collection *)

\* C26: on every way the run can end, with its result or with the threshold
\* failure, the sampler is eventually stopped: both timers are cleared.
C26_SamplerEventuallyStopped ==
    Ended ~> ~TimersActive

\* The collection window: start() has returned and stop() was not called.
InsideWindow == status = "started" /\ call.op = "none"

\* C11: every unit-of-work invocation begins, and is in flight, only while
\* start() has completed and stop() has not begun; stop() begins only after
\* run() has returned with no invocation in flight.
C11_RunInsideCollectionWindow ==
    [][/\ invocations' > invocations => InsideWindow /\ InsideWindow'
       /\ InFlight' > 0 => InsideWindow'
       /\ (call.op = "none" /\ call'.op = "stop") =>
              phase = "returned" /\ InFlight = 0]_vars

\* A stressified run with counters: the sampler was started, the run made its
\* invocations while ticks were folded, and stop() has completed after it.
C11_Witness ==
    /\ status = "stopped"
    /\ call = Idle
    /\ phase = "returned"
    /\ invocations = options.dop * options.iterations
    /\ lastFold.n > 0

-----------------------------------------------------------------------------
(* Properties of getChildrenTree *)

\* The pids of the list entries whose parent pid is in S.
ChildrenOf(S, list) == {list[i].pid : i \in {j \in DOMAIN list : list[j].ppid \in S}}

\* The pids reachable from the pids of S through parent links, S included.
RECURSIVE SubtreeOf(_, _)
SubtreeOf(S, list) ==
    IF ChildrenOf(S, list) \subseteq S THEN S
    ELSE SubtreeOf(S \cup ChildrenOf(S, list), list)

InList(pid, list) == \E i \in DOMAIN list : list[i].pid = pid

PpidOf(pid, list) == list[CHOOSE i \in DOMAIN list : list[i].pid = pid].ppid

Called == treeResult # NotCalled

\* C12: called with a root that is in the list and getTreeForParent = false,
\* getChildrenTree returns, as a set, exactly the root and its transitive
\* descendants in the list.
C12_ReturnsRootAndDescendants ==
    (/\ Called
     /\ ~treeInput.getTreeForParent
     /\ treeInput.inputPid \in 0..MaxPid
     /\ InList(treeInput.inputPid, treeInput.processesList)) =>
        /\ treeResult.kind = "ok"
        /\ Range(treeResult.list) \subseteq Range(treeInput.processesList)
        /\ Range(PidsOf(treeResult.list)) =
               SubtreeOf({treeInput.inputPid}, treeInput.processesList)

\* C13: called with a root that is in the list and getTreeForParent = true,
\* getChildrenTree returns the subtree of the root's parent when the root's
\* parent pid is not 0 and the parent is in the list, and the root's own
\* subtree when the root's parent pid is 0.
C13_ReturnsParentSubtree ==
    (/\ Called
     /\ treeInput.getTreeForParent
     /\ treeInput.inputPid \in 0..MaxPid
     /\ InList(treeInput.inputPid, treeInput.processesList)) =>
        LET list == treeInput.processesList
            ppid == PpidOf(treeInput.inputPid, list)
        IN  /\ (ppid # 0 /\ InList(ppid, list)) =>
                   /\ treeResult.kind = "ok"
                   /\ Range(PidsOf(treeResult.list)) = SubtreeOf({ppid}, list)
            /\ ppid = 0 =>
                   /\ treeResult.kind = "ok"
                   /\ Range(PidsOf(treeResult.list)) =
                          SubtreeOf({treeInput.inputPid}, list)

\* The pid the traversal would start from is not in the list.
TargetAbsent ==
    LET list == treeInput.processesList
        pid == treeInput.inputPid
    IN  \/ ~InList(pid, list)
        \/ /\ treeInput.getTreeForParent
           /\ PpidOf(pid, list) # 0
           /\ ~InList(PpidOf(pid, list), list)

\* C14: getChildrenTree throws, and returns no list, when the target pid is
\* absent from the list, and throws the invalid-pid error when inputPid is
\* null, undefined or NaN.
C14_FailsOnAbsentOrInvalidPid ==
    Called =>
        /\ treeInput.inputPid \in {NullPid, UndefinedPid, NaNPid} =>
               treeResult = NoTree("invalid pid")
        /\ (treeInput.inputPid \in 0..MaxPid /\ TargetAbsent) =>
               /\ treeResult.kind \notin {"ok", "diverges"}
               /\ treeResult.list = <<>>

\* C36: getChildrenTree terminates on every process list and returns each
\* process at most once.
C36_TerminatesWithoutDuplicates ==
    Called =>
        /\ treeResult.kind # "diverges"
        /\ \A i, j \in DOMAIN treeResult.list :
               treeResult.list[i].pid = treeResult.list[j].pid => i = j

-----------------------------------------------------------------------------
(* Properties of computeMovingAverages *)

AveragesComputed == smaOver4Collection # <<>>

RawLength(p) == Len(Field(p, "timestamp"))

Shortened(n) == IF n > DroppedHead THEN n - DroppedHead ELSE 0

\* Every field of the simple-moving-average series of p has n - 3 entries,
\* entry i being the mean of raw entries i..i+3 and stamped as raw entry i+3.
SmaAligned(p) ==
    \A prop \in DOMAIN collection[p] :
        /\ Len(smaOver4Collection[p][prop]) = Shortened(RawLength(p))
        /\ \A i \in DOMAIN smaOver4Collection[p][prop] :
              smaOver4Collection[p][prop][i] =
                  IF IsStamp(prop) THEN Field(p, prop)[i + DroppedHead]
                  ELSE SumOfSeq(SubSeq(Field(p, prop), i, i + DroppedHead))
                           \div MovingAverageSize

====
